---- MODULE Spec2Model ----
(***************************************************************************)
(* Subtitle generation core of remotion_backend (src/subtitle_generator):  *)
(* the pipeline run, the generation orchestrator with its permit pool and  *)
(* retry loop, the chunker, the timestamp matcher, the timeline merger,    *)
(* the word-limit post-processors and the line layout.                     *)
(*                                                                         *)
(* Times are integers in tenths of a second (0.1 s = 1); the code compares *)
(* and subtracts floats, and rounding keeps the order of what it compares. *)
(***************************************************************************)
EXTENDS Integers, Sequences, FiniteSets, TLC

(***************************************************************************)
(* Bounds of the model.                                                    *)
(***************************************************************************)
MaxChunks == 2
MaxConcurrent == 1
MaxRetries == 2
MaxTimedWords == 3      \* longest transcript given to the chunker alone
MaxTime == 3            \* latest word time given to the chunker alone
MaxDuration == 3        \* largest max_duration given to the chunker alone
MaxWords == 2           \* longest transcript taken through the whole data path
MaxGroups == 2          \* most groups the service makes up in one run
MaxItems == 2           \* longest word list of a transcript of any shape
MaxDivisionWords == 4   \* most words of a division given to a post-processor
MaxGroupWords == 5      \* most words of a group given to the line divider
MaxLineWords == 2       \* largest max_words_per_line
MaxSearchWords == 3     \* most words of the chunk the matcher searches

VARIABLES
    \* ---- pipeline.py: SubtitlePipeline / transcript_modification.py
    entry,          \* who started the work: "none", "apply_styles", "pipeline", "client"
    use_two_step,   \* SubtitlePipeline.use_two_step
    runPc,          \* position of SubtitlePipeline.run
    outcome,        \* how run ended: "none", "returned" or the error raised
    timeline,       \* the list run returned (<<>> while nothing was returned)
    clientClosed,   \* AsyncLLMClient.close() was awaited
    \* ---- async_llm_client.py: AsyncLLMClient
    max_concurrent, \* constructor argument max_concurrent
    max_retries,    \* self.max_retries
    semaphore,      \* free permits of self.semaphore
    strategy,       \* "none", "single", "two_step", "hybrid"
    nchunks,        \* len(chunks)
    orchPc,         \* position of the process_chunks* coroutine
    cancelReq,      \* the awaiting caller was cancelled
    taskPc,         \* per chunk: position of its generate() task
    requests,       \* per chunk: service requests issued by the current generate()
    errors,         \* per chunk: non-timeout failures seen by the current generate()
    backoffs,       \* per chunk: backoff sleeps started by the current generate()
    lastOut,        \* per chunk: outcome of the latest service request
    taskRes,        \* per chunk: value the task returned
    outOfOrder,     \* some task finished before a task of a lower chunk index
    divisions,      \* step-1 results after post-processing
    results,        \* the list built (and returned) by process_chunks*
    step2Issued,    \* some step-2 (formatting) task was created
    \* ---- chunker.py: TranscriptChunker
    transcript,     \* the transcript given to chunk()
    raw_words,      \* _extract_words(transcript): records [word, start, end]
    max_duration,   \* self.max_duration
    dataPc,         \* position of the data path of run
    cpos,           \* words consumed by the loop of chunk()
    current_words,  \* chunk(): current_words
    chunk_start,    \* chunk(): chunk_start
    chunks,         \* chunk(): chunks
    \* ---- pipeline.py: the data run passes on
    chunk_results,  \* per chunk, in chunk order: the timeline the service answered
    final_data,     \* the merged timeline run returns
    processed_chunks, \* run: processed_chunks as handed to merge
    searches,       \* per chunk and group: the searches process_groups made
    \* ---- utils/post_processor.py, utils/hybrid_line_divider.py: the
    \* word-limit post-processors
    processor,      \* "none", "GroupPostProcessor" or "HybridPostProcessor"
    max_words_per_group, \* self.max_words
    division,       \* process(division): division.groups
    ppPc,           \* position of process()
    group_i,        \* groups consumed by the loop of process()
    new_groups,     \* process(): new_groups (result)
    \* ---- models.py: FontConfig; utils/hybrid_line_divider.py: HybridLineDivider
    font_config,    \* self.font_config: [bold, italic, normal]
    max_words_per_line, \* self.max_words
    layout_group,   \* divide_group(group): [group_text, highlight_word]
    layoutPc,       \* position of the layout of the group
    highlight_font, \* what font_config.get_highlight_font() returned
    supporting_fonts, \* what font_config.get_supporting_fonts() returned
    layout_path,    \* "none", "highlighted" or "unhighlighted"
    raw_lines,      \* divide_group: lines before _optimize_lines
    layout_lines    \* divide_group: the lines given to SubtitleGroup(...)

vars == << entry, use_two_step, runPc, outcome, timeline, clientClosed,
           max_concurrent, max_retries, semaphore, strategy, nchunks, orchPc,
           cancelReq, taskPc, requests, errors, backoffs, lastOut, taskRes,
           outOfOrder, divisions, results, step2Issued,
           transcript, raw_words, max_duration, dataPc, cpos, current_words,
           chunk_start, chunks, chunk_results, final_data, processed_chunks,
           searches,
           processor, max_words_per_group, division, ppPc, group_i, new_groups,
           font_config, max_words_per_line, layout_group, layoutPc, highlight_font,
           supporting_fonts, layout_path, raw_lines, layout_lines >>

pipeVars == << entry, use_two_step, runPc, outcome, timeline, clientClosed >>
taskVars == << taskPc, requests, errors, backoffs, lastOut, taskRes, outOfOrder,
              semaphore >>
orchVars == << strategy, nchunks, orchPc, cancelReq, divisions, results, step2Issued >>
chunkerVars == << cpos, current_words, chunk_start, chunks >>
dataVars == << transcript, raw_words, max_duration, dataPc, chunkerVars, chunk_results,
              final_data, processed_chunks, searches >>
postVars == << processor, max_words_per_group, division, ppPc, group_i, new_groups >>
layoutVars == << font_config, max_words_per_line, layout_group, layoutPc, highlight_font,
                supporting_fonts, layout_path, raw_lines, layout_lines >>
utilVars == << postVars, layoutVars >>
\* what no step of the orchestration writes
confVars == << max_concurrent, max_retries, dataVars, utilVars >>

Chunks == 0 .. (MaxChunks - 1)
Live == { c \in Chunks : c < nchunks }

NoResult == [for |-> -1, step |-> "none", from |-> -1]

Terminal == {"ok", "failed", "timedout", "cancelled"}
Holding == {"request", "backoff"}

Holders == { c \in Chunks : taskPc[c] \in Holding }

(***************************************************************************)
(* AsyncLLMClient.generate                                                 *)
(***************************************************************************)
\* the step of the orchestration the running tasks belong to
TaskStep == IF orchPc = "step2" THEN "step2"
            ELSE IF strategy = "single" THEN "single"
            ELSE IF strategy = "hybrid" THEN "hybrid-step1" ELSE "step1"

\* the prompt of chunk c's request: the chunk itself and, in step 2, the
\* division zipped with it
Request(c) ==
    [chunk |-> c, step |-> TaskStep,
     division |-> IF TaskStep = "step2" THEN divisions[c + 1].for ELSE -1]

\* what the service answers to a request: a value about the chunk asked for
ServiceResult(req) == [for |-> req.chunk, step |-> req.step, from |-> req.division]

CanAcquire_Unbounded == TRUE

\* `async with self.semaphore` admits a task only while a permit is free
CanAcquire == semaphore > 0

AfterResponse_TimeoutRetried(out, n) ==
    IF out = "ok" THEN "ok"
    ELSE IF n - 1 < max_retries - 1 THEN "backoff"
    ELSE IF out = "timeout" THEN "timedout" ELSE "failed"

AfterResponse_ExtraAttempt(out, n) ==
    IF out = "ok" THEN "ok"
    ELSE IF out = "timeout" THEN "timedout"
    ELSE IF n - 1 < max_retries THEN "backoff" ELSE "failed"

\* where generate() goes after the n-th request (attempt = n - 1) ended in out
AfterResponse(out, n) ==
    IF out = "ok" THEN "ok"
    ELSE IF out = "timeout" THEN "timedout"
    ELSE IF n - 1 < max_retries - 1 THEN "backoff" ELSE "failed"

\* tasks only run normally while their gather has not been cancelled
Running(c) ==
    /\ c \in Live
    /\ ~(cancelReq /\ strategy \in {"two_step", "hybrid"})

\* enter `async with self.semaphore` and issue the first request
Acquire(c) ==
    /\ Running(c)
    /\ taskPc[c] = "waiting"
    /\ CanAcquire
    /\ semaphore' = semaphore - 1
    /\ taskPc' = [taskPc EXCEPT ![c] = "request"]
    /\ requests' = [requests EXCEPT ![c] = 1]
    /\ UNCHANGED << errors, backoffs, lastOut, taskRes, outOfOrder >>
    /\ UNCHANGED << pipeVars, orchVars, confVars >>

Respond_TimeoutKeepsPermit(c, out) ==
    /\ Running(c)
    /\ taskPc[c] = "request"
    /\ LET next == AfterResponse(out, requests[c]) IN
        /\ taskPc' = [taskPc EXCEPT ![c] = next]
        /\ lastOut' = [lastOut EXCEPT ![c] = out]
        /\ errors' = [errors EXCEPT ![c] = IF out = "error" THEN @ + 1 ELSE @]
        /\ backoffs' = [backoffs EXCEPT ![c] = IF next = "backoff" THEN @ + 1 ELSE @]
        /\ taskRes' = [taskRes EXCEPT ![c] =
                          IF next = "ok" THEN ServiceResult(Request(c)) ELSE @]
        /\ semaphore' = IF next \in {"ok", "failed"} THEN semaphore + 1 ELSE semaphore
        /\ outOfOrder' = (outOfOrder \/ (next \in Terminal /\
                            \E d \in Live : d < c /\ taskPc[d] \notin Terminal))
    /\ UNCHANGED requests
    /\ UNCHANGED << pipeVars, orchVars, confVars >>

\* the awaited service call returns, raises or times out
Respond(c, out) ==
    /\ Running(c)
    /\ taskPc[c] = "request"
    /\ LET next == AfterResponse(out, requests[c]) IN
        /\ taskPc' = [taskPc EXCEPT ![c] = next]
        /\ lastOut' = [lastOut EXCEPT ![c] = out]
        /\ errors' = [errors EXCEPT ![c] = IF out = "error" THEN @ + 1 ELSE @]
        /\ backoffs' = [backoffs EXCEPT ![c] = IF next = "backoff" THEN @ + 1 ELSE @]
        /\ taskRes' = [taskRes EXCEPT ![c] =
                          IF next = "ok" THEN ServiceResult(Request(c)) ELSE @]
        /\ semaphore' = IF next \in Terminal THEN semaphore + 1 ELSE semaphore
        /\ outOfOrder' = (outOfOrder \/ (next \in Terminal /\
                            \E d \in Live : d < c /\ taskPc[d] \notin Terminal))
    /\ UNCHANGED requests
    /\ UNCHANGED << pipeVars, orchVars, confVars >>

\* asyncio.sleep(wait_time) is over: next attempt
Wake(c) ==
    /\ Running(c)
    /\ taskPc[c] = "backoff"
    /\ taskPc' = [taskPc EXCEPT ![c] = "request"]
    /\ requests' = [requests EXCEPT ![c] = @ + 1]
    /\ UNCHANGED << errors, backoffs, lastOut, taskRes, outOfOrder, semaphore >>
    /\ UNCHANGED << pipeVars, orchVars, confVars >>

\* CancelledError reaches a task of a cancelled gather at its await
CancelTask(c) ==
    /\ c \in Live
    /\ cancelReq
    /\ strategy \in {"two_step", "hybrid"}
    /\ orchPc \in {"step1", "step2"}
    /\ taskPc[c] \in {"waiting", "request", "backoff"}
    /\ semaphore' = IF taskPc[c] \in Holding THEN semaphore + 1 ELSE semaphore
    /\ taskPc' = [taskPc EXCEPT ![c] = "cancelled"]
    /\ UNCHANGED << requests, errors, backoffs, lastOut, taskRes, outOfOrder >>
    /\ UNCHANGED << pipeVars, orchVars, confVars >>

(***************************************************************************)
(* AsyncLLMClient.process_chunks, process_chunks_two_step,                 *)
(* process_chunks_hybrid                                                   *)
(***************************************************************************)
AllTerminal == \A c \in Live : taskPc[c] \in Terminal

\* asyncio.create_task for every chunk, before the first await
CreatedTasks(n) == [c \in Chunks |-> IF c < n THEN "waiting" ELSE "none"]
Zeros == [c \in Chunks |-> 0]

\* asyncio.gather returns the tasks' values in the order of the task list
Gather == [i \in 1 .. nchunks |-> taskRes[i - 1]]

GatherFailed_Swallowed == FALSE

\* `if isinstance(result, Exception): raise result`
GatherFailed == \E c \in Live : taskPc[c] \in {"failed", "timedout"}

\* GroupPostProcessor / HybridPostProcessor.process_divisions keep list order
PostProcess(divs) == [i \in 1 .. Len(divs) |-> divs[i]]

\* HybridLineDivider.divide_groups on chunk i's processed groups
Layout(div) == [for |-> div.for, step |-> "layout", from |-> div.for]

\* results.append((i, chunk, timelines[i])) for i, chunk in enumerate(chunks)
CombineResults(tl) ==
    [i \in 1 .. nchunks |-> [idx |-> i - 1, chunk |-> i - 1, res |-> tl[i]]]

RECURSIVE InsertByIdx(_, _)
InsertByIdx(r, s) ==
    IF s = << >> THEN << r >>
    ELSE IF r.idx < Head(s).idx THEN << r >> \o s
    ELSE << Head(s) >> \o InsertByIdx(r, Tail(s))

RECURSIVE SortedByIdx(_)
SortedByIdx(s) ==
    IF s = << >> THEN << >>
    ELSE InsertByIdx(s[Len(s)], SortedByIdx(SubSeq(s, 1, Len(s) - 1)))

SortResults_Unsorted(s) == s

\* results.sort(key=lambda x: x[0])
SortResults(s) == SortedByIdx(s)

\* the strategy starts: every chunk task is created at once
StartStrategy(strat, n) ==
    /\ strategy' = strat
    /\ nchunks' = n
    /\ cancelReq' = FALSE
    /\ divisions' = << >>
    /\ step2Issued' = FALSE
    /\ results' = << >>
    /\ orchPc' = IF n = 0 THEN "returned"
                 ELSE IF strat = "single" THEN "wait" ELSE "step1"
    /\ taskPc' = CreatedTasks(n)
    /\ requests' = Zeros
    /\ errors' = Zeros
    /\ backoffs' = Zeros
    /\ lastOut' = [c \in Chunks |-> "none"]
    /\ taskRes' = [c \in Chunks |-> NoResult]
    /\ outOfOrder' = FALSE
    /\ UNCHANGED semaphore

\* _step1_divide_groups(_hybrid): gather is over and one result is an exception
Step1Raise ==
    /\ orchPc = "step1"
    /\ ~cancelReq
    /\ AllTerminal
    /\ GatherFailed
    /\ orchPc' = "raised"
    /\ UNCHANGED << strategy, nchunks, cancelReq, divisions, results, step2Issued >>
    /\ UNCHANGED << pipeVars, taskVars, confVars >>

\* two-step: step 1 succeeded everywhere; post-process, create the step-2 tasks
Step1ToStep2 ==
    /\ orchPc = "step1"
    /\ strategy = "two_step"
    /\ ~cancelReq
    /\ AllTerminal
    /\ ~GatherFailed
    /\ divisions' = PostProcess(Gather)
    /\ orchPc' = "step2"
    /\ step2Issued' = TRUE
    /\ taskPc' = CreatedTasks(nchunks)
    /\ requests' = Zeros
    /\ errors' = Zeros
    /\ backoffs' = Zeros
    /\ lastOut' = [c \in Chunks |-> "none"]
    /\ taskRes' = [c \in Chunks |-> NoResult]
    /\ UNCHANGED << outOfOrder, semaphore, strategy, nchunks, cancelReq, results >>
    /\ UNCHANGED << pipeVars, confVars >>

\* _step2_format_groups: gather is over and one result is an exception
Step2Raise ==
    /\ orchPc = "step2"
    /\ ~cancelReq
    /\ AllTerminal
    /\ GatherFailed
    /\ orchPc' = "raised"
    /\ UNCHANGED << strategy, nchunks, cancelReq, divisions, results, step2Issued >>
    /\ UNCHANGED << pipeVars, taskVars, confVars >>

\* two-step: combine (i, chunk, formatted_timelines[i])
Step2Return ==
    /\ orchPc = "step2"
    /\ ~cancelReq
    /\ AllTerminal
    /\ ~GatherFailed
    /\ results' = CombineResults(Gather)
    /\ orchPc' = "returned"
    /\ UNCHANGED << strategy, nchunks, cancelReq, divisions, step2Issued >>
    /\ UNCHANGED << pipeVars, taskVars, confVars >>

\* hybrid: post-process, lay the lines out locally, combine
HybridReturn ==
    /\ orchPc = "step1"
    /\ strategy = "hybrid"
    /\ ~cancelReq
    /\ AllTerminal
    /\ ~GatherFailed
    /\ divisions' = PostProcess(Gather)
    /\ results' = CombineResults([i \in 1 .. nchunks |-> Layout(PostProcess(Gather)[i])])
    /\ orchPc' = "returned"
    /\ UNCHANGED << strategy, nchunks, cancelReq, step2Issued >>
    /\ UNCHANGED << pipeVars, taskVars, confVars >>

Collected == { results[i].idx : i \in 1 .. Len(results) }

\* single-step: asyncio.wait hands over a finished task; its result is
\* appended, or its exception re-raised; after the last one the list is sorted
Collect(c) ==
    /\ orchPc = "wait"
    /\ c \in Live
    /\ c \notin Collected
    /\ taskPc[c] \in Terminal
    /\ IF taskPc[c] = "ok"
       THEN LET appended == Append(results, [idx |-> c, chunk |-> c, res |-> taskRes[c]])
            IN IF Len(appended) = nchunks
               THEN /\ results' = SortResults(appended)
                    /\ orchPc' = "returned"
               ELSE /\ results' = appended
                    /\ orchPc' = "wait"
       ELSE /\ orchPc' = "raised"
            /\ UNCHANGED results
    /\ UNCHANGED << strategy, nchunks, cancelReq, divisions, step2Issued >>
    /\ UNCHANGED << pipeVars, taskVars, confVars >>

\* the caller awaiting the strategy is cancelled.  asyncio.wait leaves the
\* chunk tasks alone; a cancelled gather cancels its children first
Cancel ==
    /\ entry \in {"pipeline", "client"}
    /\ orchPc \in {"step1", "step2", "wait"}
    /\ ~cancelReq
    /\ cancelReq' = TRUE
    /\ orchPc' = IF orchPc = "wait" THEN "cancelled" ELSE orchPc
    /\ UNCHANGED << strategy, nchunks, divisions, results, step2Issued >>
    /\ UNCHANGED << pipeVars, taskVars, confVars >>

\* the cancelled gather is done once every child has finished
GatherCancelled ==
    /\ orchPc \in {"step1", "step2"}
    /\ cancelReq
    /\ AllTerminal
    /\ orchPc' = "cancelled"
    /\ UNCHANGED << strategy, nchunks, cancelReq, divisions, results, step2Issued >>
    /\ UNCHANGED << pipeVars, taskVars, confVars >>

\* a strategy method of AsyncLLMClient called directly
ClientCall(strat, n) ==
    /\ entry = "none"
    /\ entry' = "client"
    /\ StartStrategy(strat, n)
    /\ UNCHANGED << use_two_step, runPc, outcome, timeline, clientClosed >>
    /\ UNCHANGED confVars

(***************************************************************************)
(* transcript_modification.apply_styles and SubtitlePipeline.run           *)
(***************************************************************************)
\* apply_styles passes use_hybrid=..., which SubtitlePipeline.__init__ does
\* not accept: the constructor raises TypeError and no run starts
ApplyStyles ==
    /\ entry = "none"
    /\ entry' = "apply_styles"
    /\ outcome' = "TypeError"
    /\ UNCHANGED << use_two_step, runPc, timeline, clientClosed >>
    /\ UNCHANGED << taskVars, orchVars, confVars >>

\* SubtitlePipeline(..., use_two_step=b).run(raw_data, config) is awaited
RunStart(b) ==
    /\ entry = "none"
    /\ entry' = "pipeline"
    /\ use_two_step' = b
    /\ runPc' = "chunking"
    /\ UNCHANGED << outcome, timeline, clientClosed >>
    /\ UNCHANGED << taskVars, orchVars, confVars >>

\* self.chunker.chunk(raw_data) raises
RunChunkRaises ==
    /\ runPc = "chunking"
    /\ outcome' = "ChunkingError"
    /\ runPc' = "finally"
    /\ UNCHANGED << entry, use_two_step, timeline, clientClosed >>
    /\ UNCHANGED << taskVars, orchVars, confVars >>

\* `if not chunks: raise ValueError`
RunNoChunks ==
    /\ runPc = "chunking"
    /\ outcome' = "ValueError"
    /\ runPc' = "finally"
    /\ UNCHANGED << entry, use_two_step, timeline, clientClosed >>
    /\ UNCHANGED << taskVars, orchVars, confVars >>

\* GenerationConfig.use_hybrid: True for every registered style
UseHybrid == TRUE

\* run chooses the strategy from use_two_step alone
ChosenStrategy == IF use_two_step THEN "two_step" ELSE "single"

\* chunking gave n >= 1 chunks; the chosen strategy is awaited
RunGenerate(n) ==
    /\ runPc = "chunking"
    /\ n >= 1
    /\ StartStrategy(ChosenStrategy, n)
    /\ runPc' = "generating"
    /\ UNCHANGED << entry, use_two_step, outcome, timeline, clientClosed >>
    /\ UNCHANGED confVars

\* the strategy returned chunk_results
RunGenerated ==
    /\ runPc = "generating"
    /\ orchPc = "returned"
    /\ runPc' = "matching"
    /\ UNCHANGED << entry, use_two_step, outcome, timeline, clientClosed >>
    /\ UNCHANGED << taskVars, orchVars, confVars >>

\* the strategy raised a chunk task's exception; run does not catch it
RunGenerationFailed ==
    /\ runPc = "generating"
    /\ orchPc = "raised"
    /\ outcome' = "GenerationError"
    /\ runPc' = "finally"
    /\ UNCHANGED << entry, use_two_step, timeline, clientClosed >>
    /\ UNCHANGED << taskVars, orchVars, confVars >>

\* CancelledError leaves the awaited strategy
RunCancelled ==
    /\ runPc = "generating"
    /\ orchPc = "cancelled"
    /\ outcome' = "CancelledError"
    /\ runPc' = "finally"
    /\ UNCHANGED << entry, use_two_step, timeline, clientClosed >>
    /\ UNCHANGED << taskVars, orchVars, confVars >>

\* process_chunk for every result, merge, validate_continuity, return
RunMatchAndMerge ==
    /\ runPc = "matching"
    /\ timeline' = [i \in 1 .. Len(results) |-> results[i].res]
    /\ outcome' = "returned"
    /\ runPc' = "finally"
    /\ UNCHANGED << entry, use_two_step, clientClosed >>
    /\ UNCHANGED << taskVars, orchVars, confVars >>

\* process_chunk or merge raises
RunMatchRaises ==
    /\ runPc = "matching"
    /\ outcome' = "MatchingError"
    /\ runPc' = "finally"
    /\ UNCHANGED << entry, use_two_step, timeline, clientClosed >>
    /\ UNCHANGED << taskVars, orchVars, confVars >>

RunFinally_CloseOnSuccessOnly ==
    /\ runPc = "finally"
    /\ clientClosed' = (outcome = "returned")
    /\ runPc' = "done"
    /\ UNCHANGED << entry, use_two_step, outcome, timeline >>
    /\ UNCHANGED << taskVars, orchVars, confVars >>

\* finally: await self.llm_client.close()
RunFinally ==
    /\ runPc = "finally"
    /\ clientClosed' = TRUE
    /\ runPc' = "done"
    /\ UNCHANGED << entry, use_two_step, outcome, timeline >>
    /\ UNCHANGED << taskVars, orchVars, confVars >>

(***************************************************************************)
(* Specification of the orchestration                                      *)
(***************************************************************************)
OrchInit ==
    /\ entry = "none"
    /\ use_two_step = TRUE
    /\ runPc = "init"
    /\ outcome = "none"
    /\ timeline = << >>
    /\ clientClosed = FALSE
    /\ max_concurrent \in 1 .. MaxConcurrent
    /\ max_retries \in 1 .. MaxRetries
    /\ semaphore = max_concurrent
    /\ strategy = "none"
    /\ nchunks = 0
    /\ orchPc = "idle"
    /\ cancelReq = FALSE
    /\ taskPc = [c \in Chunks |-> "none"]
    /\ requests = Zeros
    /\ errors = Zeros
    /\ backoffs = Zeros
    /\ lastOut = [c \in Chunks |-> "none"]
    /\ taskRes = [c \in Chunks |-> NoResult]
    /\ outOfOrder = FALSE
    /\ divisions = << >>
    /\ results = << >>
    /\ step2Issued = FALSE

\* no transcript was handed to the data path
DataIdle ==
    /\ transcript = [kind |-> "dict", has_words |-> FALSE, words |-> << >>,
                     has_word_timestamps |-> FALSE, word_timestamps |-> << >>]
    /\ raw_words = << >>
    /\ max_duration = 1
    /\ dataPc = "idle"
    /\ cpos = 0
    /\ current_words = << >>
    /\ chunk_start = 0
    /\ chunks = << >>
    /\ chunk_results = << >>
    /\ final_data = << >>
    /\ processed_chunks = << >>
    /\ searches = << >>

\* no post-processor was constructed
PostIdle ==
    /\ processor = "none"
    /\ max_words_per_group = 1
    /\ division = << >>
    /\ ppPc = "idle"
    /\ group_i = 0
    /\ new_groups = << >>

\* no line divider was constructed
LayoutIdle ==
    /\ font_config = [bold |-> FALSE, italic |-> FALSE, normal |-> TRUE]
    /\ max_words_per_line = 1
    /\ layout_group = [group_text |-> << >>, highlight_word |-> << >>]
    /\ layoutPc = "idle"
    /\ highlight_font = "none"
    /\ supporting_fonts = << >>
    /\ layout_path = "none"
    /\ raw_lines = << >>
    /\ layout_lines = << >>

UtilIdle == PostIdle /\ LayoutIdle

Init == OrchInit /\ DataIdle /\ UtilIdle

Next ==
    \/ ApplyStyles
    \/ \E b \in BOOLEAN : RunStart(b)
    \/ RunChunkRaises
    \/ RunNoChunks
    \/ \E n \in 1 .. MaxChunks : RunGenerate(n)
    \/ RunGenerated
    \/ RunGenerationFailed
    \/ RunCancelled
    \/ RunMatchAndMerge
    \/ RunMatchRaises
    \/ RunFinally
    \/ \E s \in {"single", "two_step", "hybrid"}, n \in 0 .. MaxChunks : ClientCall(s, n)
    \/ \E c \in Chunks : Acquire(c)
    \/ \E c \in Chunks, out \in {"ok", "error", "timeout"} : Respond(c, out)
    \/ \E c \in Chunks : Wake(c)
    \/ \E c \in Chunks : CancelTask(c)
    \/ Step1Raise
    \/ Step1ToStep2
    \/ Step2Raise
    \/ Step2Return
    \/ HybridReturn
    \/ \E c \in Chunks : Collect(c)
    \/ Cancel
    \/ GatherCancelled

Spec == Init /\ [][Next]_vars

(***************************************************************************)
(* Specification of the strategies of AsyncLLMClient when no caller        *)
(* cancels: every service request is answered, a sleep ends, a free permit *)
(* goes to every task that keeps waiting for one, and a coroutine whose    *)
(* await is over goes on                                                   *)
(***************************************************************************)
NextLive ==
    \/ \E s \in {"single", "two_step", "hybrid"}, n \in 0 .. MaxChunks : ClientCall(s, n)
    \/ \E c \in Chunks : Acquire(c)
    \/ \E c \in Chunks, out \in {"ok", "error", "timeout"} : Respond(c, out)
    \/ \E c \in Chunks : Wake(c)
    \/ Step1Raise
    \/ Step1ToStep2
    \/ Step2Raise
    \/ Step2Return
    \/ HybridReturn
    \/ \E c \in Chunks : Collect(c)

Fairness ==
    /\ \A c \in Chunks : SF_vars(Acquire(c))
    /\ \A c \in Chunks : WF_vars(\E out \in {"ok", "error", "timeout"} : Respond(c, out))
    /\ \A c \in Chunks : WF_vars(Wake(c))
    /\ WF_vars(Step1Raise)
    /\ WF_vars(Step1ToStep2)
    /\ WF_vars(Step2Raise)
    /\ WF_vars(Step2Return)
    /\ WF_vars(HybridReturn)
    /\ WF_vars(\E c \in Chunks : Collect(c))

SpecLive == Init /\ [][NextLive]_vars /\ Fairness

(***************************************************************************)
(* Text.  A string is a sequence of one-character strings; the character   *)
(* classes are those of Python's re module on str patterns.                *)
(***************************************************************************)
UpperCase == << "A", "B", "C", "D", "E", "F", "G", "H", "I", "J", "K", "L", "M",
                "N", "O", "P", "Q", "R", "S", "T", "U", "V", "W", "X", "Y", "Z" >>
LowerCase == << "a", "b", "c", "d", "e", "f", "g", "h", "i", "j", "k", "l", "m",
                "n", "o", "p", "q", "r", "s", "t", "u", "v", "w", "x", "y", "z" >>
Digits == { "0", "1", "2", "3", "4", "5", "6", "7", "8", "9" }
\* letters outside ASCII (str.isalnum() holds, [A-Za-z0-9] does not match)
NonAsciiLower == { "é", "à" }

Range(s) == { s[i] : i \in 1 .. Len(s) }
Min(S) == CHOOSE x \in S : \A y \in S : x <= y

\* the class [A-Za-z0-9]
AsciiAlnum == Range(UpperCase) \cup Range(LowerCase) \cup Digits
IsAsciiAlnum(ch) == ch \in AsciiAlnum
\* the class \w of a str pattern: Unicode alphanumerics and the underscore
IsWordChar(ch) == IsAsciiAlnum(ch) \/ ch = "_" \/ ch \in NonAsciiLower
\* the class \s
IsSpace(ch) == ch = " "

\* the lower-case letter of each upper-case letter
LowerOf ==
    [ch \in Range(UpperCase) |->
        LowerCase[CHOOSE i \in 1 .. Len(UpperCase) : UpperCase[i] = ch]]

\* str.lower() of one character
LowerChar(ch) == IF ch \in DOMAIN LowerOf THEN LowerOf[ch] ELSE ch

\* str.lower()
RECURSIVE Lower(_)
Lower(s) == IF s = << >> THEN s ELSE << LowerChar(Head(s)) >> \o Lower(Tail(s))

\* str.strip()
RECURSIVE Strip(_)
Strip(s) ==
    IF s = << >> THEN s
    ELSE IF IsSpace(Head(s)) THEN Strip(Tail(s))
    ELSE IF IsSpace(s[Len(s)]) THEN Strip(SubSeq(s, 1, Len(s) - 1))
    ELSE s

KeptByNormalize(ch) == IsWordChar(ch) \/ IsSpace(ch)

\* re.sub(r'[^\w\s]', '', word.lower()).strip()
normalize_word(word) == Strip(SelectSeq(Lower(word), KeptByNormalize))

\* the length of the longest run of [A-Za-z0-9] that starts at s[i]
RECURSIVE AlnumRun(_, _)
AlnumRun(s, i) ==
    IF i > Len(s) \/ ~IsAsciiAlnum(s[i]) THEN 0 ELSE 1 + AlnumRun(s, i + 1)

\* the length of the match of [A-Za-z0-9]+(?:'[A-Za-z0-9]+)? at s[i], 0 if none
TokenLen(s, i) ==
    LET n == AlnumRun(s, i)
        m == IF n > 0 /\ i + n <= Len(s) /\ s[i + n] = "'"
             THEN AlnumRun(s, i + n + 1) ELSE 0
    IN  IF n = 0 THEN 0 ELSE IF m > 0 THEN n + 1 + m ELSE n

\* re.findall(r"[A-Za-z0-9]+(?:'[A-Za-z0-9]+)?", s) from position i on
RECURSIVE FindAllFrom(_, _)
FindAllFrom(s, i) ==
    IF i > Len(s) THEN << >>
    ELSE LET n == TokenLen(s, i)
         IN  IF n = 0 THEN FindAllFrom(s, i + 1)
             ELSE << SubSeq(s, i, i + n - 1) >> \o FindAllFrom(s, i + n)

FindAll(s) == FindAllFrom(s, 1)

\* " ".join(parts)
RECURSIVE Join(_)
Join(parts) ==
    IF parts = << >> THEN << >>
    ELSE IF Len(parts) = 1 THEN parts[1]
    ELSE parts[1] \o << " " >> \o Join(Tail(parts))

\* the concatenation of the strings of a list
RECURSIVE Concat(_)
Concat(parts) == IF parts = << >> THEN << >> ELSE Head(parts) \o Concat(Tail(parts))

(***************************************************************************)
(* TranscriptChunker.chunk                                                 *)
(***************************************************************************)
WordTimestamp(w, s, e) == [word |-> w, start |-> s, end |-> e]

\* A transcript is a dict or another object; has_words says whether it has
\* the key (the attribute) 'words', has_word_timestamps whether a dict has
\* the key 'word_timestamps'.  An item of a word list is a dict, an object
\* with an attribute .word, or something else.
Transcript(k, hw, ws, hwt, wts) ==
    [kind |-> k, has_words |-> hw, words |-> ws,
     has_word_timestamps |-> hwt, word_timestamps |-> wts]

\* {'words': [{'word': .., 'start': .., 'end': ..}, ...]}
RECURSIVE DictItems(_)
DictItems(wts) ==
    IF wts = << >> THEN << >>
    ELSE << [kind |-> "dict", word |-> Head(wts).word, start |-> Head(wts).start,
             end |-> Head(wts).end] >> \o DictItems(Tail(wts))

DictTranscript(wts) == Transcript("dict", TRUE, DictItems(wts), FALSE, << >>)

\* `transcript.get('words') or transcript.get('word_timestamps', [])`,
\* `getattr(transcript, 'words', [])`
WordsRaw(t) ==
    IF t.kind = "dict"
    THEN IF t.has_words /\ t.words # << >> THEN t.words
         ELSE IF t.has_word_timestamps THEN t.word_timestamps
         ELSE << >>
    ELSE IF t.has_words THEN t.words ELSE << >>

\* the loop of _extract_words: dicts and objects with .word are kept
RECURSIVE ExtractItems(_)
ExtractItems(items) ==
    IF items = << >> THEN << >>
    ELSE (IF Head(items).kind \in {"dict", "object"}
          THEN << WordTimestamp(Head(items).word, Head(items).start, Head(items).end) >>
          ELSE << >>) \o ExtractItems(Tail(items))

extract_words(t) == ExtractItems(WordsRaw(t))

\* [w.word for w in wts]
RECURSIVE WordsOf(_)
WordsOf(wts) == IF wts = << >> THEN << >> ELSE << Head(wts).word >> \o WordsOf(Tail(wts))

\* _create_chunk(words, start, index)
create_chunk(words, start, index) ==
    [text |-> Join(WordsOf(words)),
     words |-> words,
     start |-> start,
     end |-> words[Len(words)].end,
     chunk_index |-> index]

ClosesChunk_OnlyWhenExceeded(cw, cs, word, max) == word.end - cs > max /\ cw # << >>

\* `if duration_if_added >= self.max_duration and current_words`
ClosesChunk(cw, cs, word, max) == word.end - cs >= max /\ cw # << >>

ChunkStep_DropsClosingWord(st, word, max) ==
    LET cs == IF st.current_words = << >> THEN word.start ELSE st.chunk_start
    IN  IF ClosesChunk(st.current_words, cs, word, max)
        THEN [chunks |-> Append(st.chunks,
                                create_chunk(st.current_words, cs, Len(st.chunks))),
              current_words |-> << >>,
              chunk_start |-> word.start]
        ELSE [chunks |-> st.chunks,
              current_words |-> Append(st.current_words, word),
              chunk_start |-> cs]

\* one iteration of `for word in words`, on st = [chunks, current_words, chunk_start]
ChunkStep(st, word, max) ==
    LET cs == IF st.current_words = << >> THEN word.start ELSE st.chunk_start
    IN  IF ClosesChunk(st.current_words, cs, word, max)
        THEN [chunks |-> Append(st.chunks,
                                create_chunk(st.current_words, cs, Len(st.chunks))),
              current_words |-> << word >>,
              chunk_start |-> word.start]
        ELSE [chunks |-> st.chunks,
              current_words |-> Append(st.current_words, word),
              chunk_start |-> cs]

\* `words = self._extract_words(transcript)`
ExtractWords ==
    /\ dataPc = "extracting"
    /\ raw_words' = extract_words(transcript)
    /\ dataPc' = "chunking"
    /\ UNCHANGED << transcript, max_duration, chunkerVars, chunk_results, final_data,
                    processed_chunks, searches >>
    /\ UNCHANGED << pipeVars, taskVars, orchVars, max_concurrent, max_retries, utilVars >>

\* the loop body runs for the next word
ChunkWord ==
    /\ dataPc = "chunking"
    /\ cpos < Len(raw_words)
    /\ LET st == ChunkStep([chunks |-> chunks, current_words |-> current_words,
                            chunk_start |-> chunk_start],
                           raw_words[cpos + 1], max_duration)
       IN  /\ chunks' = st.chunks
           /\ current_words' = st.current_words
           /\ chunk_start' = st.chunk_start
    /\ cpos' = cpos + 1
    /\ UNCHANGED << transcript, raw_words, max_duration, dataPc, chunk_results,
                    final_data,
                    processed_chunks, searches >>
    /\ UNCHANGED << pipeVars, taskVars, orchVars, max_concurrent, max_retries, utilVars >>

\* the loop is over: the final chunk, `return chunks`; run raises ValueError
\* on an empty list
ChunkReturn ==
    /\ dataPc = "chunking"
    /\ cpos = Len(raw_words)
    /\ chunks' = IF current_words # << >>
                 THEN Append(chunks, create_chunk(current_words, chunk_start, Len(chunks)))
                 ELSE chunks
    /\ dataPc' = IF chunks' = << >> THEN "ValueError" ELSE "generating"
    /\ UNCHANGED << transcript, raw_words, max_duration, cpos, current_words, chunk_start,
                    chunk_results, final_data,
                    processed_chunks, searches >>
    /\ UNCHANGED << pipeVars, taskVars, orchVars, max_concurrent, max_retries, utilVars >>

(***************************************************************************)
(* TimestampMatcher (sequential matching).  Indices into word_timestamps   *)
(* are 0-based as in the code: At(s, i) is s[i].                           *)
(***************************************************************************)
At(s, i) == s[i + 1]

NonEmpty(s) == s # << >>

\* [normalize_word(w) for w in words]
RECURSIVE NormalizeAll(_)
NormalizeAll(words) ==
    IF words = << >> THEN << >>
    ELSE << normalize_word(Head(words)) >> \o NormalizeAll(Tail(words))

\* [normalize_word(w) for w in re.findall(...) if normalize_word(w)]
PhraseWords(phrase) == SelectSeq(NormalizeAll(FindAll(phrase)), NonEmpty)

\* [normalize_word(w.word) for w in self.word_timestamps]
TranscriptWords(wts) == NormalizeAll(WordsOf(wts))

FirstMatch_Last(pw, tw, from) ==
    LET hits == { i \in from .. (Len(tw) - Len(pw)) :
                    \A j \in 1 .. Len(pw) : At(tw, i + j - 1) = pw[j] }
    IN  IF hits = {} THEN -1 ELSE CHOOSE i \in hits : \A k \in hits : k <= i

\* the first i in range(from, len(tw) - len(pw) + 1) with tw[i:i+len(pw)] == pw,
\* or -1
FirstMatch(pw, tw, from) ==
    LET hits == { i \in from .. (Len(tw) - Len(pw)) :
                    \A j \in 1 .. Len(pw) : At(tw, i + j - 1) = pw[j] }
    IN  IF hits = {} THEN -1 ELSE Min(hits)

Found(wts, i, n) ==
    [start |-> At(wts, i).start, end |-> At(wts, i + n - 1).end,
     start_idx |-> i, end_idx |-> i + n - 1]

NotFound(search_start_idx) ==
    [start |-> 0, end |-> 0, start_idx |-> search_start_idx, end_idx |-> search_start_idx]

find_phrase_timestamp_sequential_FromStart(wts, phrase, search_start_idx) ==
    LET pw == PhraseWords(phrase)
        tw == TranscriptWords(wts)
        any == FirstMatch(pw, tw, 0)
    IN  IF pw = << >> THEN NotFound(search_start_idx)
        ELSE IF any # -1 THEN Found(wts, any, Len(pw))
        ELSE NotFound(search_start_idx)

\* forward from search_start_idx, else anywhere from 0, else the placeholder
find_phrase_timestamp_sequential(wts, phrase, search_start_idx) ==
    LET pw == PhraseWords(phrase)
        tw == TranscriptWords(wts)
        fwd == FirstMatch(pw, tw, search_start_idx)
        any == FirstMatch(pw, tw, 0)
    IN  IF pw = << >> THEN NotFound(search_start_idx)
        ELSE IF fwd # -1 THEN Found(wts, fwd, Len(pw))
        ELSE IF any # -1 THEN Found(wts, any, Len(pw))
        ELSE NotFound(search_start_idx)

\* the words of a line, one per token, while the index stays within end_idx
RECURSIVE WordDetails(_, _, _, _, _)
WordDetails(wts, line_words, i, start_idx, end_idx) ==
    IF i >= Len(line_words) \/ start_idx + i > end_idx THEN << >>
    ELSE LET word_idx == start_idx + i
             rest == WordDetails(wts, line_words, i + 1, start_idx, end_idx)
         IN  IF word_idx < Len(wts)
             THEN << [word |-> At(line_words, i),
                      start |-> At(wts, word_idx).start,
                      end |-> At(wts, word_idx).end,
                      id |-> << "word", word_idx >>] >> \o rest
             ELSE rest

get_word_timestamps_sequential(wts, line_text, start_idx, end_idx) ==
    IF start_idx < 0 \/ end_idx >= Len(wts) \/ start_idx > end_idx THEN << >>
    ELSE WordDetails(wts, FindAll(line_text), 0, start_idx, end_idx)

\* one pass of the line loop: the line, found as r from the cursor of st,
\* is clamped to the group's [start, end], gets its word records, and the
\* cursor advances; searches records, per line, the cursor it was searched
\* from, what find_phrase_timestamp_sequential returned and the cursor the
\* loop went on with
LineFound(wts, line_data, st, r, start, end) ==
    LET line_start == IF r.start < start THEN start ELSE r.start
        line_end == IF r.end > end THEN end ELSE r.end
        cursor == IF r.end_idx > st.line_search_idx THEN r.end_idx + 1
                  ELSE st.line_search_idx
    IN  [processed_lines |->
            Append(st.processed_lines,
                   [text |-> line_data.text,
                    font_type |-> line_data.font_type,
                    start |-> line_start,
                    end |-> line_end,
                    words |-> get_word_timestamps_sequential(
                                  wts, line_data.text, r.start_idx, r.end_idx),
                    id |-> << >>]),
         line_search_idx |-> cursor,
         searches |-> Append(st.searches,
                             [from |-> st.line_search_idx, found |-> r,
                              cursor |-> cursor])]

LineStep(wts, line_data, st, start, end) ==
    LineFound(wts, line_data, st,
              find_phrase_timestamp_sequential(wts, line_data.text, st.line_search_idx),
              start, end)

\* the state of the line loop after n lines of a group found at
\* [start, end] from index start_idx: [processed_lines, line_search_idx]
\* and the searches made
RECURSIVE LinesLoop(_, _, _, _, _, _)
LinesLoop(wts, lines, n, start, end, start_idx) ==
    IF n = 0 THEN [processed_lines |-> << >>, line_search_idx |-> start_idx,
                   searches |-> << >>]
    ELSE LineStep(wts, lines[n], LinesLoop(wts, lines, n - 1, start, end, start_idx),
                  start, end)

\* one pass of the group loop: the group, found as r from the cursor of
\* st, gets its lines, and the cursor advances unless r is (0, 0);
\* searches records, per group, the same as for a line and the searches
\* of its lines
GroupLines(wts, group_data, n, st, r, ll) ==
    LET missing == r.start = 0 /\ r.end = 0
        cursor == IF missing THEN st.current_search_idx ELSE r.end_idx + 1
    IN  [processed |->
            Append(st.processed,
                   [id |-> << n - 1 >>,
                    group_text |-> group_data.group_text,
                    start |-> r.start,
                    end |-> r.end,
                    lines |-> ll.processed_lines]),
         current_search_idx |-> cursor,
         searches |-> Append(st.searches,
                             [from |-> st.current_search_idx, found |-> r,
                              cursor |-> cursor, lines |-> ll.searches])]

GroupFound(wts, group_data, n, st, r) ==
    GroupLines(wts, group_data, n, st, r,
               LinesLoop(wts, group_data.lines, Len(group_data.lines),
                         r.start, r.end, r.start_idx))

GroupStep(wts, group_data, n, st) ==
    GroupFound(wts, group_data, n, st,
               find_phrase_timestamp_sequential(wts, group_data.group_text,
                                                st.current_search_idx))

\* the state of the group loop after n groups: [processed, current_search_idx]
\* and the searches made
RECURSIVE GroupsLoop(_, _, _)
GroupsLoop(wts, groups, n) ==
    IF n = 0 THEN [processed |-> << >>, current_search_idx |-> 0, searches |-> << >>]
    ELSE GroupStep(wts, groups[n], n, GroupsLoop(wts, groups, n - 1))

process_groups(groups, wts) == GroupsLoop(wts, groups, Len(groups)).processed

\* SubtitlePipeline.process_chunk
process_chunk(chunk, tl) == process_groups(tl, chunk.words)

(***************************************************************************)
(* TimelineMerger.merge: ids are <<g>>, <<g, l>> and <<g, l, w>> for       *)
(* "group-g", "group-g-line-l" and "group-g-line-l-word-w".                *)
(***************************************************************************)
merge_KeepsChunkIds(per_chunk) == Concat(per_chunk)

merge(per_chunk) ==
    LET all_groups == Concat(per_chunk)
    IN  [g \in 1 .. Len(all_groups) |->
            [all_groups[g] EXCEPT
                !.id = << g - 1 >>,
                !.lines = [l \in 1 .. Len(@) |->
                    [@[l] EXCEPT
                        !.id = << g - 1, l - 1 >>,
                        !.words = [w \in 1 .. Len(@) |->
                            [@[w] EXCEPT !.id = << g - 1, l - 1, w - 1 >>]]]]]]

(***************************************************************************)
(* The answers of the generation service and the data path of              *)
(* SubtitlePipeline.run                                                    *)
(***************************************************************************)
SeqsUpTo(S, n) == UNION { [1 .. k -> S] : k \in 0 .. n }

\* the words of a chunk as strings
WordTexts(chunk) == WordsOf(chunk.words)

SubtitleLine(text) == [text |-> text, font_type |-> "normal"]

\* the ways to cut a list of words into consecutive non-empty pieces
RECURSIVE Splits(_)
Splits(ws) ==
    IF ws = << >> THEN { << >> }
    ELSE UNION { { << SubSeq(ws, 1, k) >> \o rest :
                     rest \in Splits(SubSeq(ws, k + 1, Len(ws))) } :
                 k \in 1 .. Len(ws) }

\* the ways to lay the words of a group out in lines, word for word
VerbatimLines(ws) ==
    { [i \in 1 .. Len(sp) |-> SubtitleLine(Join(sp[i]))] : sp \in Splits(ws) }

\* timelines of consecutive verbatim groups that cover the words ws
RECURSIVE VerbatimGroups(_)
VerbatimGroups(ws) ==
    IF ws = << >> THEN { << >> }
    ELSE UNION { { << [group_text |-> Join(SubSeq(ws, 1, k)), lines |-> ls] >> \o rest :
                     ls \in VerbatimLines(SubSeq(ws, 1, k)),
                     rest \in VerbatimGroups(SubSeq(ws, k + 1, Len(ws))) } :
                 k \in 1 .. Len(ws) }

VerbatimTimelines(chunk) == VerbatimGroups(WordTexts(chunk))

\* the words the transcripts of the data path are made of
Vocab == { << "N", "o", "," >>, << "i", "t", "'", "s" >>, << "é" >> }

\* phrases an answer may hold: any run of words of the chunk, any single word
Phrases(chunk) ==
    { Join(SubSeq(WordTexts(chunk), i, j)) :
        i \in 1 .. Len(chunk.words), j \in 1 .. Len(chunk.words) } \cup Vocab

FreeGroups(chunk) ==
    { [group_text |-> p, lines |-> << SubtitleLine(p) >>] : p \in Phrases(chunk) \ { << >> } }

\* the groups answered so far in this run
RECURSIVE TotalLen(_)
TotalLen(lists) == IF lists = << >> THEN 0 ELSE Len(Head(lists)) + TotalLen(Tail(lists))

FreeTimelines(chunk) == SeqsUpTo(FreeGroups(chunk), MaxGroups - TotalLen(chunk_results))

\* the chunk whose answer is collected next (answers are paired with their
\* chunks and put in chunk order by process_chunks*)
NextChunkToAnswer == chunks[Len(chunk_results) + 1]

\* the service answers with consecutive verbatim groups and lines
ServiceVerbatim ==
    /\ dataPc = "generating"
    /\ Len(chunk_results) < Len(chunks)
    /\ \E tl \in VerbatimTimelines(NextChunkToAnswer) :
           chunk_results' = Append(chunk_results, tl)
    /\ UNCHANGED << transcript, raw_words, max_duration, dataPc, chunkerVars, final_data,
                    processed_chunks, searches >>
    /\ UNCHANGED << pipeVars, taskVars, orchVars, max_concurrent, max_retries, utilVars >>

\* the service answers with groups of its own making
ServiceFree ==
    /\ dataPc = "generating"
    /\ Len(chunk_results) < Len(chunks)
    /\ \E tl \in FreeTimelines(NextChunkToAnswer) :
           chunk_results' = Append(chunk_results, tl)
    /\ UNCHANGED << transcript, raw_words, max_duration, dataPc, chunkerVars, final_data,
                    processed_chunks, searches >>
    /\ UNCHANGED << pipeVars, taskVars, orchVars, max_concurrent, max_retries, utilVars >>

\* run: process_chunk for every chunk result, merge, validate_continuity
\* (which only logs), return final_data
MatchAndMerge ==
    /\ dataPc = "generating"
    /\ Len(chunk_results) = Len(chunks)
    /\ processed_chunks' = [c \in 1 .. Len(chunks) |->
                               process_chunk(chunks[c], chunk_results[c])]
    /\ searches' = [c \in 1 .. Len(chunks) |->
                       GroupsLoop(chunks[c].words, chunk_results[c],
                                  Len(chunk_results[c])).searches]
    /\ final_data' = merge(processed_chunks')
    /\ dataPc' = "returned"
    /\ UNCHANGED << transcript, raw_words, max_duration, chunkerVars, chunk_results >>
    /\ UNCHANGED << pipeVars, taskVars, orchVars, max_concurrent, max_retries, utilVars >>

(***************************************************************************)
(* Specification of the chunker alone                                      *)
(***************************************************************************)
\* the orchestration at rest
OrchIdle == OrchInit /\ max_concurrent = 1 /\ max_retries = 1

\* chunk() after `words = self._extract_words(transcript)`
ChunkerStart ==
    /\ UtilIdle
    /\ transcript = DictTranscript(raw_words)
    /\ dataPc = "chunking"
    /\ cpos = 0
    /\ current_words = << >>
    /\ chunk_start = 0
    /\ chunks = << >>
    /\ chunk_results = << >>
    /\ final_data = << >>
    /\ processed_chunks = << >>
    /\ searches = << >>

\* words with any start <= end, in any order
TimedWords ==
    { w \in [word : { << "N", "o", "," >> }, start : 0 .. MaxTime, end : 0 .. MaxTime] :
        w.start <= w.end }

InitChunk ==
    /\ OrchIdle
    /\ raw_words \in SeqsUpTo(TimedWords, MaxTimedWords)
    /\ max_duration \in 1 .. MaxDuration
    /\ ChunkerStart

NextChunk ==
    \/ ChunkWord
    \/ ChunkReturn

SpecChunk == InitChunk /\ [][NextChunk]_vars

(***************************************************************************)
(* Specification of the chunker on transcripts of every shape              *)
(***************************************************************************)
\* items of a word list: dicts, objects with .word, and other things
Items ==
    { [kind |-> k, word |-> << "N", "o", "," >>, start |-> sp[1], end |-> sp[2]] :
        k \in {"dict", "object", "other"}, sp \in { << 0, 2 >>, << 2, 4 >> } }

ItemLists == SeqsUpTo(Items, MaxItems)

Transcripts ==
    { Transcript("dict", TRUE, ws, TRUE, wts) : ws \in ItemLists, wts \in ItemLists }
    \cup { Transcript("dict", TRUE, ws, FALSE, << >>) : ws \in ItemLists }
    \cup { Transcript("dict", FALSE, << >>, TRUE, wts) : wts \in ItemLists }
    \cup { Transcript("dict", FALSE, << >>, FALSE, << >>) }
    \cup { Transcript("object", TRUE, ws, FALSE, << >>) : ws \in ItemLists }
    \cup { Transcript("object", FALSE, << >>, FALSE, << >>) }

InitExtract ==
    /\ OrchIdle
    /\ UtilIdle
    /\ transcript \in Transcripts
    /\ raw_words = << >>
    /\ max_duration \in { 4, 5 }
    /\ dataPc = "extracting"
    /\ cpos = 0
    /\ current_words = << >>
    /\ chunk_start = 0
    /\ chunks = << >>
    /\ chunk_results = << >>
    /\ final_data = << >>
    /\ processed_chunks = << >>
    /\ searches = << >>

NextExtract ==
    \/ ExtractWords
    \/ ChunkWord
    \/ ChunkReturn

SpecExtract == InitExtract /\ [][NextExtract]_vars

(***************************************************************************)
(* Specification of the matching of free answers                           *)
(***************************************************************************)
\* [start, end] of a word
WordSpans == { << 0, 2 >>, << 2, 4 >> }

\* words the matcher can find
MatchVocab == { << "N", "o", "," >>, << "i", "t", "'", "s" >> }

MatchWords == { WordTimestamp(w, sp[1], sp[2]) : w \in MatchVocab, sp \in WordSpans }

\* with these spans: a chunk closes at every word that ends at 4, or never
DataDurations == { 4, 5 }

InitMatch ==
    /\ OrchIdle
    /\ raw_words \in SeqsUpTo(MatchWords, MaxWords)
    /\ max_duration \in DataDurations
    /\ ChunkerStart

NextMatch ==
    \/ ChunkWord
    \/ ChunkReturn
    \/ ServiceFree
    \/ MatchAndMerge

SpecMatch == InitMatch /\ [][NextMatch]_vars

(***************************************************************************)
(* Specification of the data path on verbatim answers                      *)
(***************************************************************************)
\* also a word of no length at the very start
DataSpans == WordSpans \cup { << 0, 0 >> }

DataWords == { WordTimestamp(w, sp[1], sp[2]) : w \in Vocab, sp \in DataSpans }

InitData ==
    /\ OrchIdle
    /\ raw_words \in SeqsUpTo(DataWords, MaxWords)
    /\ max_duration \in DataDurations
    /\ ChunkerStart

NextData ==
    \/ ChunkWord
    \/ ChunkReturn
    \/ ServiceVerbatim
    \/ MatchAndMerge

SpecData == InitData /\ [][NextData]_vars

(***************************************************************************)
(* Specification of the matcher's searches: one chunk, groups of one or    *)
(* two lines whose texts need not be those of the group                    *)
(***************************************************************************)
\* the words spoken
SearchVocab == { << "A", "," >>, << "b" >> }

\* the words one after the other, each one time unit long
RECURSIVE Spoken(_)
Spoken(ws) ==
    IF ws = << >> THEN << >>
    ELSE Append(Spoken(SubSeq(ws, 1, Len(ws) - 1)),
                WordTimestamp(ws[Len(ws)], Len(ws) - 1, Len(ws)))

\* texts of a line: a word spoken, another, one never spoken
LineTexts == { << "a" >>, << "b" >>, << "c" >> }

\* texts of a group: also a word twice, two words, and one without a token
SearchTexts ==
    LineTexts \cup { << "a", " ", "a" >>, << "a", " ", "b" >>, << "," >> }

\* groups of one line that repeats the group, and groups of any one or two lines
PlainGroups == { [group_text |-> t, lines |-> << SubtitleLine(t) >>] : t \in SearchTexts }

LinedGroups ==
    { [group_text |-> t, lines |-> ls] :
        t \in SearchTexts,
        ls \in { << SubtitleLine(x) >> : x \in LineTexts } \cup
               { << SubtitleLine(x), SubtitleLine(y) >> : x \in LineTexts, y \in LineTexts } }

\* one group, or a group after a plain one
SearchTimelines ==
    { << g >> : g \in LinedGroups } \cup
    { << p, g >> : p \in PlainGroups, g \in LinedGroups }

\* the service answers with groups and lines of its own making
ServiceLines ==
    /\ dataPc = "generating"
    /\ Len(chunk_results) < Len(chunks)
    /\ \E tl \in SearchTimelines : chunk_results' = Append(chunk_results, tl)
    /\ UNCHANGED << transcript, raw_words, max_duration, dataPc, chunkerVars, final_data,
                    processed_chunks, searches >>
    /\ UNCHANGED << pipeVars, taskVars, orchVars, max_concurrent, max_retries, utilVars >>

InitSearch ==
    /\ OrchIdle
    /\ raw_words \in { Spoken(ws) : ws \in SeqsUpTo(SearchVocab, MaxSearchWords) \ { << >> } }
    /\ max_duration = MaxSearchWords + 1
    /\ ChunkerStart

NextSearch ==
    \/ ChunkWord
    \/ ChunkReturn
    \/ ServiceLines
    \/ MatchAndMerge

SpecSearch == InitSearch /\ [][NextSearch]_vars

(***************************************************************************)
(* GroupPostProcessor and HybridPostProcessor.  An Optional[str] is << >>  *)
(* for None and << s >> for the string s.                                  *)
(***************************************************************************)
None == << >>
Some(s) == << s >>

\* the length of the run of non-whitespace that starts at s[i]
RECURSIVE NonSpaceRun(_, _)
NonSpaceRun(s, i) ==
    IF i > Len(s) \/ IsSpace(s[i]) THEN 0 ELSE 1 + NonSpaceRun(s, i + 1)

RECURSIVE SplitFrom(_, _)
SplitFrom(s, i) ==
    IF i > Len(s) THEN << >>
    ELSE LET n == NonSpaceRun(s, i)
         IN  IF n = 0 THEN SplitFrom(s, i + 1)
             ELSE << SubSeq(s, i, i + n - 1) >> \o SplitFrom(s, i + n)

\* str.split()
Split(s) == SplitFrom(s, 1)

\* s[a:b] for 0 <= a
Slice(s, a, b) == SubSeq(s, a + 1, IF b < Len(s) THEN b ELSE Len(s))

num_groups_Floor(word_count, max_words) ==
    IF word_count \div max_words = 0 THEN 1 ELSE word_count \div max_words

\* `(word_count + self.max_words - 1) // self.max_words`
num_groups(word_count, max_words) == (word_count + max_words - 1) \div max_words

RECURSIVE SplitParts_RemainderLast(_, _, _, _, _, _)
SplitParts_RemainderLast(words, i, start_idx, n, base_size, remainder) ==
    IF i >= n THEN << >>
    ELSE LET chunk_size == base_size + (IF i >= n - remainder THEN 1 ELSE 0)
         IN  << Join(Slice(words, start_idx, start_idx + chunk_size)) >>
             \o SplitParts_RemainderLast(words, i + 1, start_idx + chunk_size, n,
                                         base_size, remainder)

\* the loop of _split_group from part i on
RECURSIVE SplitParts(_, _, _, _, _, _)
SplitParts(words, i, start_idx, n, base_size, remainder) ==
    IF i >= n THEN << >>
    ELSE LET chunk_size == base_size + (IF i < remainder THEN 1 ELSE 0)
         IN  << Join(Slice(words, start_idx, start_idx + chunk_size)) >>
             \o SplitParts(words, i + 1, start_idx + chunk_size, n, base_size, remainder)

\* GroupPostProcessor._split_group(text, word_count)
split_group(text, word_count, max_words) ==
    LET n == num_groups(word_count, max_words)
    IN  SplitParts(Split(text), 0, 0, n, word_count \div n, word_count % n)

GroupWithHighlight(text, highlight) == [group_text |-> text, highlight_word |-> highlight]

\* re.sub(r'[^\w]', '', w.lower())
clean(w) == SelectSeq(Lower(w), IsWordChar)

RECURSIVE CleanAll(_)
CleanAll(words) ==
    IF words = << >> THEN << >> ELSE << clean(Head(words)) >> \o CleanAll(Tail(words))

\* list.index(x), -1 where it raises ValueError
IndexOf(list, x) ==
    IF \E i \in 1 .. Len(list) : list[i] = x
    THEN Min({ i \in 1 .. Len(list) : list[i] = x }) - 1
    ELSE -1

\* highlight_idx of _split_group_with_highlight
highlight_idx(words, highlight) ==
    LET clean_highlight ==
            IF highlight # None /\ highlight[1] # << >> THEN clean(highlight[1]) ELSE << >>
    IN  IF clean_highlight # << >> THEN IndexOf(CleanAll(words), clean_highlight) ELSE -1

\* max(half, key=len)
Longest(half) ==
    half[Min({ i \in 1 .. Len(half) : \A j \in 1 .. Len(half) : Len(half[j]) <= Len(half[i]) })]

\* `if len(half) > 1: ... = max(half, key=len)`
Secondary(half) == IF Len(half) > 1 THEN Some(Longest(half)) ELSE None

second_half_SkipsOne(words, split_point) == Slice(words, split_point + 1, Len(words))

\* `second_half = words[split_point:]`
second_half(words, split_point) == Slice(words, split_point, Len(words))

\* HybridPostProcessor._split_group_with_highlight(group)
split_group_with_highlight(group) ==
    LET words == Split(group.group_text)
        highlight == group.highlight_word
        idx == highlight_idx(words, highlight)
        split_point == Len(words) \div 2
        first == Slice(words, 0, split_point)
        second == second_half(words, split_point)
        first_highlight ==
            IF idx >= 0 /\ idx < split_point THEN highlight ELSE Secondary(first)
        second_highlight ==
            IF idx >= 0 /\ idx < split_point THEN Secondary(second)
            ELSE IF idx >= split_point THEN highlight
            ELSE Secondary(second)
    IN  (IF first # << >>
         THEN << GroupWithHighlight(Join(first), first_highlight) >> ELSE << >>)
        \o (IF second # << >>
            THEN << GroupWithHighlight(Join(second), second_highlight) >> ELSE << >>)

\* what a step of a post-processor leaves alone
postRest == << pipeVars, taskVars, orchVars, max_concurrent, max_retries, dataVars,
              layoutVars >>

\* GroupPostProcessor.process: the loop body runs for the next group
ProcessGroup ==
    /\ processor = "GroupPostProcessor"
    /\ ppPc = "processing"
    /\ group_i < Len(division)
    /\ LET group_text == division[group_i + 1]
           word_count == Len(Split(group_text))
       IN  new_groups' = new_groups \o
               (IF word_count <= max_words_per_group
                THEN << group_text >>
                ELSE split_group(group_text, word_count, max_words_per_group))
    /\ group_i' = group_i + 1
    /\ UNCHANGED << processor, max_words_per_group, division, ppPc >>
    /\ UNCHANGED postRest

\* HybridPostProcessor.process: the loop body runs for the next group
HybridProcessGroup ==
    /\ processor = "HybridPostProcessor"
    /\ ppPc = "processing"
    /\ group_i < Len(division)
    /\ LET group == division[group_i + 1]
           word_count == Len(Split(group.group_text))
       IN  new_groups' = new_groups \o
               (IF word_count <= max_words_per_group
                THEN << group >>
                ELSE split_group_with_highlight(group))
    /\ group_i' = group_i + 1
    /\ UNCHANGED << processor, max_words_per_group, division, ppPc >>
    /\ UNCHANGED postRest

\* the loop is over: `return GroupDivision(groups=new_groups)`, `return result`
ProcessReturn ==
    /\ ppPc = "processing"
    /\ group_i = Len(division)
    /\ ppPc' = "returned"
    /\ UNCHANGED << processor, max_words_per_group, division, group_i, new_groups >>
    /\ UNCHANGED postRest

(***************************************************************************)
(* Specification of the word-limit post-processors                         *)
(***************************************************************************)
\* tokens: a short one, two of one length, one of them the highlight with
\* another case and a comma
PostVocab == { << "a" >>, << "b", "b" >>, << "B", "," >> }

\* no highlight, one that some token may match, one that no token matches
PostHighlights == { None, Some(<< "B" >>), Some(<< "z", "z" >>) }

\* the words joined by one space or by two
RECURSIVE JoinWith(_, _)
JoinWith(parts, sep) ==
    IF parts = << >> THEN << >>
    ELSE IF Len(parts) = 1 THEN parts[1]
    ELSE parts[1] \o sep \o JoinWith(Tail(parts), sep)

\* a word list as one group, its words one or two spaces apart, or as two
\* consecutive groups, either of which may be empty
GroupTexts ==
    UNION { { << JoinWith(ws, << " " >>) >>, << JoinWith(ws, << " ", " " >>) >> } \cup
            { << Join(SubSeq(ws, 1, k)), Join(SubSeq(ws, k + 1, Len(ws))) >> :
                k \in 0 .. Len(ws) } :
            ws \in SeqsUpTo(PostVocab, MaxDivisionWords) }

\* ceilings below, at and above half the size of a group
Ceilings == 1 .. (MaxDivisionWords \div 2)

HighlightDivisions ==
    UNION { IF Len(gt) = 1
            THEN { << GroupWithHighlight(gt[1], h) >> : h \in PostHighlights }
            ELSE { << GroupWithHighlight(gt[1], h1), GroupWithHighlight(gt[2], h2) >> :
                     h1 \in PostHighlights, h2 \in PostHighlights } :
            gt \in GroupTexts }

InitPost ==
    /\ OrchIdle
    /\ DataIdle
    /\ LayoutIdle
    /\ processor \in { "GroupPostProcessor", "HybridPostProcessor" }
    /\ max_words_per_group \in Ceilings
    /\ division \in IF processor = "GroupPostProcessor" THEN GroupTexts
                    ELSE HighlightDivisions
    /\ ppPc = "processing"
    /\ group_i = 0
    /\ new_groups = << >>

NextPost ==
    \/ ProcessGroup
    \/ HybridProcessGroup
    \/ ProcessReturn

SpecPost == InitPost /\ [][NextPost]_vars

(***************************************************************************)
(* FontConfig and HybridLineDivider                                        *)
(***************************************************************************)
FontConfig(b, i, n) == [bold |-> b, italic |-> i, normal |-> n]

\* FontConfig.get_highlight_font
get_highlight_font(fc) ==
    IF fc.bold THEN "bold" ELSE IF fc.italic THEN "italic" ELSE "normal"

\* FontConfig.get_supporting_fonts
get_supporting_fonts(fc) ==
    LET fonts == (IF fc.normal THEN << "normal" >> ELSE << >>)
                 \o (IF fc.bold /\ fc.italic THEN << "italic" >> ELSE << >>)
    IN  IF fonts = << >> THEN << "normal" >> ELSE fonts

\* FontConfig.should_use_highlight
should_use_highlight(fc) == fc.bold

\* SubtitleLine(text=..., font_type=...)
StyledLine(text, font) == [text |-> text, font_type |-> font]

\* `highlight in text`
Contains(text, sub) ==
    \E i \in 0 .. Len(text) - Len(sub) : SubSeq(text, i + 1, i + Len(sub)) = sub

\* HybridLineDivider._chunk_words(words, max_size)
RECURSIVE chunk_words(_, _)
chunk_words(words, max_size) ==
    IF words = << >> THEN << >>
    ELSE IF Len(words) <= max_size THEN << words >>
    ELSE << SubSeq(words, 1, max_size) >>
         \o chunk_words(SubSeq(words, max_size + 1, Len(words)), max_size)

\* the lines of chunks i, i + 1, ... (0-based), fonts taken in turn from
\* position start_idx on
RECURSIVE SupportLines(_, _, _, _)
SupportLines(word_chunks, fonts, start_idx, i) ==
    IF i >= Len(word_chunks) THEN << >>
    ELSE << StyledLine(Join(word_chunks[i + 1]), fonts[((start_idx + i) % Len(fonts)) + 1]) >>
         \o SupportLines(word_chunks, fonts, start_idx, i + 1)

\* HybridLineDivider._divide_without_highlight(text): the lines
divide_without_highlight(text, max_words, fc) ==
    SupportLines(chunk_words(Split(text), max_words), get_supporting_fonts(fc), 0, 0)

\* [self._clean_word(w) for w in words]
RECURSIVE CleanWords(_)
CleanWords(words) ==
    IF words = << >> THEN << >>
    ELSE << normalize_word(Head(words)) >> \o CleanWords(Tail(words))

\* divide_group: highlight_idx, -1 where divide_group leaves for
\* _divide_without_highlight
divide_highlight_idx(g, fc) ==
    IF ~should_use_highlight(fc) THEN -1
    ELSE IF g.highlight_word = None \/ g.highlight_word[1] = << >> THEN -1
    ELSE IF ~Contains(g.group_text, g.highlight_word[1]) THEN -1
    ELSE IndexOf(CleanWords(Split(g.group_text)), normalize_word(g.highlight_word[1]))

\* divide_group lines 57-96: the lines around the highlight at words[idx]
lines_around_highlight(g, idx, max_words, fc) ==
    LET words == Split(g.group_text)
        before_words == Slice(words, 0, idx)
        after_words == Slice(words, idx + 1, Len(words))
        fonts == get_supporting_fonts(fc)
        before_chunks == chunk_words(before_words, max_words)
        start_idx == IF before_words # << >> THEN Len(before_chunks) % Len(fonts) ELSE 0
    IN  SupportLines(before_chunks, fonts, 0, 0)
        \o << StyledLine(g.highlight_word[1], get_highlight_font(fc)) >>
        \o SupportLines(chunk_words(after_words, max_words), fonts, start_idx, 0)

\* before[-2] takes the text of before[-1], which is popped
MergeLast(before) ==
    LET n == Len(before)
    IN  SubSeq(before, 1, n - 2)
        \o << StyledLine(before[n - 1].text \o << " " >> \o before[n].text,
                         before[n - 1].font_type) >>

\* after[0] takes the text of after[1], which is popped
MergeFirst(after) ==
    << StyledLine(after[1].text \o << " " >> \o after[2].text, after[1].font_type) >>
    \o SubSeq(after, 3, Len(after))

\* `while len(before) > 1 and len(after) > 1`
RECURSIVE MergeBoth(_, _)
MergeBoth(before, after) ==
    IF Len(before) > 1 /\ Len(after) > 1
    THEN IF Len(before) >= Len(after)
         THEN MergeBoth(MergeLast(before), after)
         ELSE MergeBoth(before, MergeFirst(after))
    ELSE << before, after >>

\* `while len(before) + 1 + len(after) > 3`
RECURSIVE MergeExtras(_, _)
MergeExtras(before, after) ==
    IF Len(before) + 1 + Len(after) > 3
    THEN IF Len(before) > 1 THEN MergeExtras(MergeLast(before), after)
         ELSE IF Len(after) > 1 THEN MergeExtras(before, MergeFirst(after))
         ELSE << before, after >>
    ELSE << before, after >>

\* the first i with lines[i].font_type = font, 1-based, 0 for None
FirstWithFont(ls, font) ==
    IF \E i \in 1 .. Len(ls) : ls[i].font_type = font
    THEN Min({ i \in 1 .. Len(ls) : ls[i].font_type = font })
    ELSE 0

\* _optimize_lines lines 207-218: two supporting lines of one font
Alternate(result, fonts, hfont) ==
    LET supporting_indices == { i \in 1 .. Len(result) : result[i].font_type # hfont }
    IN  IF Len(result) = 3 /\ Len(fonts) >= 2 /\ Cardinality(supporting_indices) = 2
        THEN LET idx1 == Min(supporting_indices)
                 idx2 == CHOOSE i \in supporting_indices : i # idx1
                 current_font == result[idx1].font_type
                 alternate_font == IF current_font = fonts[1] THEN fonts[2] ELSE fonts[1]
             IN  IF result[idx1].font_type = result[idx2].font_type
                 THEN [result EXCEPT ![idx2] = StyledLine(result[idx2].text, alternate_font)]
                 ELSE result
        ELSE result

\* HybridLineDivider._optimize_lines(lines, supporting_fonts)
optimize_lines(ls, fonts, fc) ==
    IF Len(ls) <= 3 THEN ls
    ELSE LET hfont == get_highlight_font(fc)
             h == FirstWithFont(ls, hfont)
         IN  IF h = 0
             THEN [i \in 1 .. 3 |-> StyledLine(ls[i].text, fonts[((i - 1) % Len(fonts)) + 1])]
             ELSE LET both == MergeBoth(SubSeq(ls, 1, h - 1), SubSeq(ls, h + 1, Len(ls)))
                      merged == MergeExtras(both[1], both[2])
                  IN  Alternate(merged[1] \o << ls[h] >> \o merged[2], fonts, hfont)

\* what a step of the layout leaves alone
layoutRest == << pipeVars, taskVars, orchVars, max_concurrent, max_retries, dataVars,
                postVars >>

\* SubtitleGroup(group_text=text, lines=lines): lines has min_items=1 and
\* max_items=3
SubtitleGroupOutcome(ls) ==
    IF Len(ls) >= 1 /\ Len(ls) <= 3 THEN "returned" ELSE "ValidationError"

\* the style's fonts are read
GetFonts ==
    /\ layoutPc = "config"
    /\ highlight_font' = get_highlight_font(font_config)
    /\ supporting_fonts' = get_supporting_fonts(font_config)
    /\ layoutPc' = "divide"
    /\ UNCHANGED << font_config, max_words_per_line, layout_group, layout_path, raw_lines,
                    layout_lines >>
    /\ UNCHANGED layoutRest

\* divide_group leaves for _divide_without_highlight
DivideWithoutHighlight ==
    /\ layoutPc = "divide"
    /\ divide_highlight_idx(layout_group, font_config) < 0
    /\ layout_path' = "unhighlighted"
    /\ layout_lines' = divide_without_highlight(layout_group.group_text, max_words_per_line,
                                                font_config)
    /\ layoutPc' = SubtitleGroupOutcome(layout_lines')
    /\ UNCHANGED << font_config, max_words_per_line, layout_group, highlight_font,
                    supporting_fonts, raw_lines >>
    /\ UNCHANGED layoutRest

\* divide_group finds the highlight, builds the lines around it and bounds
\* them by _optimize_lines
DivideAtHighlight ==
    /\ layoutPc = "divide"
    /\ divide_highlight_idx(layout_group, font_config) >= 0
    /\ layout_path' = "highlighted"
    /\ raw_lines' = lines_around_highlight(layout_group,
                                          divide_highlight_idx(layout_group, font_config),
                                          max_words_per_line, font_config)
    /\ layout_lines' = optimize_lines(raw_lines', get_supporting_fonts(font_config),
                                      font_config)
    /\ layoutPc' = SubtitleGroupOutcome(layout_lines')
    /\ UNCHANGED << font_config, max_words_per_line, layout_group, highlight_font,
                    supporting_fonts >>
    /\ UNCHANGED layoutRest

(***************************************************************************)
(* Specification of the line layout                                        *)
(***************************************************************************)
FontConfigs == { FontConfig(b, i, n) : b \in BOOLEAN, i \in BOOLEAN, n \in BOOLEAN }

\* no highlight; one that differs from its token by case and punctuation;
\* one in lower case; one that is a token; one that is not in the text
LayoutHighlights ==
    { None, Some(<< "B" >>), Some(<< "b" >>), Some(<< "b", "b" >>), Some(<< "z", "z" >>) }

LayoutGroups ==
    { GroupWithHighlight(Join(ws), h) :
        ws \in SeqsUpTo(PostVocab, MaxGroupWords), h \in LayoutHighlights }

InitLayout ==
    /\ OrchIdle
    /\ DataIdle
    /\ PostIdle
    /\ font_config \in FontConfigs
    /\ max_words_per_line \in 1 .. MaxLineWords
    /\ layout_group \in LayoutGroups
    /\ layoutPc = "config"
    /\ highlight_font = "none"
    /\ supporting_fonts = << >>
    /\ layout_path = "none"
    /\ raw_lines = << >>
    /\ layout_lines = << >>

NextLayout ==
    \/ GetFonts
    \/ DivideWithoutHighlight
    \/ DivideAtHighlight

SpecLayout == InitLayout /\ [][NextLayout]_vars

(***************************************************************************)
(* Properties of the orchestration                                         *)
(***************************************************************************)
\* C1: at every moment the number of generate calls holding a permit
\* (awaiting a response or sleeping in a backoff) is at most max_concurrent.
C1_PermitBound == Cardinality(Holders) <= max_concurrent

C1_Witness ==
    /\ Cardinality(Holders) = max_concurrent
    /\ \E c \in Live : taskPc[c] = "waiting"

\* C2: whatever the completion order, a returned list has chunk i's entry at
\* position i, pairing chunk i with the service's result for chunk i.
C2_ResultsInChunkOrder ==
    orchPc = "returned" =>
        /\ Len(results) = nchunks
        /\ \A i \in 1 .. Len(results) :
              /\ results[i].idx = i - 1
              /\ results[i].chunk = i - 1
              /\ results[i].res.for = i - 1
              /\ strategy \in {"two_step", "hybrid"} => results[i].res.from = i - 1

C2_Witness ==
    /\ orchPc = "returned"
    /\ strategy = "single"
    /\ nchunks >= 2
    /\ outOfOrder

\* C3: once a chunk's generate call has failed on all its retries, a finished
\* run has returned no timeline; unless it was cancelled it ended in the
\* generation error.
C3_FailTogether ==
    (runPc = "done" /\ \E c \in Live : taskPc[c] = "failed") =>
        /\ timeline = << >>
        /\ outcome # "returned"
        /\ ~cancelReq => outcome = "GenerationError"

C3_Witness ==
    /\ runPc = "done"
    /\ outcome = "GenerationError"
    /\ \E c \in Live : taskPc[c] = "failed"
    /\ \E c \in Live : taskPc[c] = "ok"

\* C4: whenever run has finished, on whatever exit path, the client is closed.
C4_ClosedOnEveryExit == runPc = "done" => clientClosed

C4_Witness ==
    /\ runPc = "done"
    /\ outcome = "CancelledError"
    /\ clientClosed

\* C5: a generate call whose latest request timed out has failed for good: it
\* is neither retrying nor in a backoff, took no backoff for the timeout, and
\* holds no permit (the permits are all accounted for).
C5_TimeoutFailsFast ==
    /\ semaphore = max_concurrent - Cardinality(Holders)
    /\ \A c \in Live :
          lastOut[c] = "timeout" =>
              /\ taskPc[c] = "timedout"
              /\ backoffs[c] = errors[c]

C5_Witness ==
    \E c \in Live :
        /\ lastOut[c] = "timeout"
        /\ taskPc[c] = "timedout"
        /\ requests[c] < max_retries

\* C6: a generate call issues at most max_retries requests, returns on the
\* first success, sleeps only between two attempts, and raises the last error
\* exactly when max_retries attempts failed with a non-timeout error.
C6_RetryBudget ==
    \A c \in Live :
        /\ requests[c] <= max_retries
        /\ taskPc[c] = "ok" => (lastOut[c] = "ok" /\ errors[c] = requests[c] - 1)
        /\ taskPc[c] \in {"request", "ok", "failed", "timedout"} =>
               backoffs[c] = requests[c] - 1
        /\ taskPc[c] = "backoff" => backoffs[c] = requests[c]
        /\ backoffs[c] <= requests[c]
        /\ backoffs[c] <= max_retries - 1
        /\ taskPc[c] = "failed" <=> errors[c] = max_retries

C6_Witness ==
    \E c \in Live :
        /\ taskPc[c] = "failed"
        /\ max_retries >= 2
        /\ requests[c] = max_retries
        /\ backoffs[c] = max_retries - 1

\* C7: a pipeline run for a style that selects hybrid runs the hybrid
\* strategy: one group-division call per chunk, local layout, no step-2 call.
C7_PipelineRunsHybrid ==
    (entry = "pipeline" /\ UseHybrid /\ runPc = "done" /\ outcome = "returned") =>
        /\ strategy = "hybrid"
        /\ ~step2Issued

(***************************************************************************)
(* Properties of the timeline and of the chunks                            *)
(***************************************************************************)
\* the 0.1 s of slack between consecutive groups
Tolerance == 1

\* how the matcher finds a phrase when it searches from index idx
MatchKind(wts, phrase, idx) ==
    LET pw == PhraseWords(phrase)
        tw == TranscriptWords(wts)
    IN  IF pw = << >> THEN "miss"
        ELSE IF \E i \in idx .. (Len(tw) - Len(pw)) :
                   \A j \in 1 .. Len(pw) : tw[i + j] = pw[j] THEN "forward"
        ELSE IF \E i \in 0 .. (Len(tw) - Len(pw)) :
                   \A j \in 1 .. Len(pw) : tw[i + j] = pw[j] THEN "fallback"
        ELSE "miss"

\* per group of the returned timeline: how its phrase was found
GroupKinds ==
    Concat([c \in 1 .. Len(chunks) |->
        [k \in 1 .. Len(chunk_results[c]) |->
            MatchKind(chunks[c].words, chunk_results[c][k].group_text,
                      GroupsLoop(chunks[c].words, chunk_results[c], k - 1).current_search_idx)]])

\* the source words have times from 0 on and follow each other in time
OrderedTranscript ==
    \A i \in 1 .. Len(raw_words) :
        /\ 0 <= raw_words[i].start
        /\ raw_words[i].start <= raw_words[i].end
        /\ i < Len(raw_words) => raw_words[i].end <= raw_words[i + 1].start

\* C8 as stated: in the timeline run returns, every group ends at most 0.1 s
\* after the next group starts, whatever the service answered and whatever
\* the source words are.
C8_Monotonic ==
    dataPc = "returned" =>
        \A i \in 1 .. (Len(final_data) - 1) :
            final_data[i].end <= final_data[i + 1].start + Tolerance

\* C8 amended: when the source words have times from 0 on and follow each
\* other in time, two consecutive groups of the returned timeline that were
\* both found by the forward search from the cursor (not by the scan from
\* index 0, not left unmatched) satisfy output[i].end <= output[i+1].start + 0.1.
C8_MonotonicForward ==
    (dataPc = "returned" /\ OrderedTranscript) =>
        \A i \in 1 .. (Len(final_data) - 1) :
            (GroupKinds[i] = "forward" /\ GroupKinds[i + 1] = "forward") =>
                final_data[i].end <= final_data[i + 1].start + Tolerance

C8_Witness ==
    /\ dataPc = "returned"
    /\ OrderedTranscript
    /\ Len(final_data) >= 2
    /\ GroupKinds[1] = "forward" /\ GroupKinds[2] = "forward"
    /\ final_data[1].end > 0
    /\ final_data[1].end = final_data[2].start

\* every answer of the service is a cover of its chunk by verbatim groups
\* and lines
VerbatimService ==
    \A c \in 1 .. Len(chunks) : chunk_results[c] \in VerbatimTimelines(chunks[c])

\* the phrase is present in the source words and did not get the placeholder
Present(wts, phrase, start, end) ==
    /\ MatchKind(wts, phrase, 0) # "miss"
    /\ ~(start = 0 /\ end = 0)

\* no group and no line of any chunk is a matching miss
NoMatchingMiss ==
    \A c \in 1 .. Len(chunks) :
        LET processed == process_chunk(chunks[c], chunk_results[c])
        IN  \A k \in 1 .. Len(processed) :
                /\ Present(chunks[c].words, processed[k].group_text,
                           processed[k].start, processed[k].end)
                /\ \A l \in 1 .. Len(processed[k].lines) :
                       Present(chunks[c].words, processed[k].lines[l].text,
                               processed[k].lines[l].start, processed[k].lines[l].end)

\* the normalized word records of a timeline in group, line and word order
OutputWords(tl) ==
    Concat([g \in 1 .. Len(tl) |->
        Concat([l \in 1 .. Len(tl[g].lines) |->
            [w \in 1 .. Len(tl[g].lines[l].words) |->
                normalize_word(tl[g].lines[l].words[w].word)]])])

InputWords == NormalizeAll(WordsOf(raw_words))

\* C9: when the service answers with verbatim groups and no matching miss
\* occurs, the normalized words of the returned timeline, concatenated in
\* group, line and word order, are the normalized concatenation of the input
\* words.
C9_Coverage ==
    (dataPc = "returned" /\ VerbatimService /\ NoMatchingMiss) =>
        Concat(OutputWords(final_data)) = Concat(InputWords)

\* C10: every chunk chunk() returns is shorter than max_duration, unless it is
\* one single word that lasts max_duration or longer.
C10_ChunkBound ==
    dataPc \in {"generating", "ValueError"} =>
        \A i \in 1 .. Len(chunks) :
            \/ chunks[i].end - chunks[i].start < max_duration
            \/ /\ Len(chunks[i].words) = 1
               /\ chunks[i].words[1].end - chunks[i].words[1].start >= max_duration

C10_Witness ==
    /\ dataPc = "generating"
    /\ \E i \in 1 .. Len(chunks) :
           /\ Len(chunks[i].words) >= 2
           /\ chunks[i].end - chunks[i].start = max_duration - 1
    /\ \E i \in 1 .. Len(chunks) :
           /\ Len(chunks[i].words) = 1
           /\ chunks[i].end - chunks[i].start >= max_duration

\* the word records of a list of chunks, in chunk order
RECURSIVE ChunkWords(_)
ChunkWords(chs) ==
    IF chs = << >> THEN << >> ELSE Head(chs).words \o ChunkWords(Tail(chs))

\* C11: the word lists of the chunks chunk() returns, concatenated in chunk
\* order, are the input word sequence; no chunk is empty; chunk_index counts
\* 0, 1, 2, ...; a chunk starts at its first word's start and ends at its
\* last word's end.
C11_ChunksPartitionWords ==
    dataPc \in {"generating", "ValueError"} =>
        /\ ChunkWords(chunks) = raw_words
        /\ \A i \in 1 .. Len(chunks) :
               /\ chunks[i].words # << >>
               /\ chunks[i].chunk_index = i - 1
               /\ chunks[i].start = chunks[i].words[1].start
               /\ chunks[i].end = chunks[i].words[Len(chunks[i].words)].end

C11_Witness ==
    /\ dataPc = "generating"
    /\ Len(chunks) >= 2
    /\ \E i \in 1 .. Len(chunks) : Len(chunks[i].words) >= 2
    /\ \E i, j \in 1 .. Len(raw_words) : raw_words[i] # raw_words[j]

\* a transcript with no words list and no words attribute
Unrecognized(t) ==
    IF t.kind = "dict" THEN ~t.has_words /\ ~t.has_word_timestamps ELSE ~t.has_words

\* chunk() is over: it returned chunks, or raised
ChunkOver == dataPc \in {"generating", "ValueError", "ChunkingError"}

\* C12: chunk() returns an empty list for a transcript whose word list is
\* empty, and raises ChunkingError, returning nothing, for a transcript with
\* no words list and no words attribute.
C12_EmptyListOrChunkingError ==
    ChunkOver =>
        /\ (~Unrecognized(transcript) /\ WordsRaw(transcript) = << >>) =>
               (chunks = << >> /\ dataPc # "ChunkingError")
        /\ Unrecognized(transcript) => dataPc = "ChunkingError"

(***************************************************************************)
(* Properties of the word-limit post-processors                            *)
(***************************************************************************)
\* the text of a group of the division or of the result
TextOf(g) == IF processor = "GroupPostProcessor" THEN g ELSE g.group_text

WordCount(g) == Len(Split(TextOf(g)))

WithinCeiling ==
    \A i \in 1 .. Len(new_groups) : WordCount(new_groups[i]) <= max_words_per_group

\* C13: after post-processing with ceiling max_words_per_group every group
\* of the result has at most max_words_per_group words, for both
\* post-processors and for input groups of any size.
C13_WithinCeiling == ppPc = "returned" => WithinCeiling

\* C13 as it holds: for the no-highlight post-processor and input groups of
\* any size, and for the highlight post-processor and input groups of at most
\* twice the ceiling.
C13_WithinCeilingUpToTwice ==
    (/\ ppPc = "returned"
     /\ processor = "HybridPostProcessor" =>
            \A i \in 1 .. Len(division) :
                WordCount(division[i]) <= 2 * max_words_per_group)
        => WithinCeiling

\* a group of exactly twice the ceiling was halved after a group passed through
C13_Witness ==
    /\ ppPc = "returned"
    /\ processor = "HybridPostProcessor"
    /\ Len(division) = 2
    /\ WordCount(division[1]) = max_words_per_group
    /\ WordCount(division[2]) = 2 * max_words_per_group
    /\ Len(new_groups) = 3

\* the whitespace-separated words of the texts of a list of groups, in order
RECURSIVE WordsOfGroups(_)
WordsOfGroups(groups) ==
    IF groups = << >> THEN << >>
    ELSE Split(TextOf(Head(groups))) \o WordsOfGroups(Tail(groups))

RECURSIVE TextsOfGroups(_)
TextsOfGroups(groups) ==
    IF groups = << >> THEN << >>
    ELSE << TextOf(Head(groups)) >> \o TextsOfGroups(Tail(groups))

\* the number of groups a group of the division becomes
Parts(g) ==
    IF WordCount(g) <= max_words_per_group THEN 1
    ELSE IF processor = "GroupPostProcessor"
         THEN (WordCount(g) + max_words_per_group - 1) \div max_words_per_group
         ELSE 2

\* the number of result groups that come from the groups before division[i]
RECURSIVE Offset(_)
Offset(i) == IF i = 1 THEN 0 ELSE Offset(i - 1) + Parts(division[i - 1])

PassThrough ==
    \A i \in 1 .. Len(division) :
        WordCount(division[i]) <= max_words_per_group =>
            /\ Offset(i) + 1 <= Len(new_groups)
            /\ new_groups[Offset(i) + 1] = division[i]

\* C14: the texts of the resulting groups, joined by spaces in order, are the
\* space-joined word sequence of the original groups, and groups within the
\* ceiling pass through unchanged.
C14_JoinedTextIsJoinedWords ==
    ppPc = "returned" =>
        /\ Join(TextsOfGroups(new_groups)) = Join(WordsOfGroups(division))
        /\ PassThrough

\* C14 as it holds: the words of the resulting groups, in order, are the
\* words of the original groups, and groups within the ceiling pass through
\* unchanged.
C14_WordsPreserved ==
    ppPc = "returned" =>
        /\ WordsOfGroups(new_groups) = WordsOfGroups(division)
        /\ PassThrough

\* a group passed through and a group was split in three
C14_Witness ==
    /\ ppPc = "returned"
    /\ processor = "GroupPostProcessor"
    /\ Len(division) = 2
    /\ WordCount(division[1]) = 1
    /\ Parts(division[2]) = 3
    /\ Len(new_groups) = 4
    /\ \E i, j \in 1 .. Len(new_groups) : new_groups[i] # new_groups[j]

\* the groups of the division that the highlight post-processor split
SplitGroups ==
    { i \in 1 .. Len(division) : WordCount(division[i]) > max_words_per_group }

HybridReturned == ppPc = "returned" /\ processor = "HybridPostProcessor"

\* C15: every group that results from the split of an oversized group by the
\* highlight post-processor carries a highlight word, halves of a single word
\* included.
C15_EveryHalfHighlighted ==
    HybridReturned =>
        \A i \in SplitGroups :
            /\ new_groups[Offset(i) + 1].highlight_word # None
            /\ new_groups[Offset(i) + 2].highlight_word # None

\* the positions of the tokens of a group that match its highlight word
MatchPositions(g) ==
    IF g.highlight_word = None THEN { }
    ELSE { k \in 1 .. Len(Split(g.group_text)) :
             /\ clean(Split(g.group_text)[k]) = clean(g.highlight_word[1])
             /\ clean(g.highlight_word[1]) # << >> }

\* h is the longest word of half, the first of them if there are several
IsLongestFirst(h, half) ==
    \E k \in 1 .. Len(half) :
        /\ h = Some(half[k])
        /\ \A j \in 1 .. Len(half) : Len(half[j]) <= Len(half[k])
        /\ \A j \in 1 .. k - 1 : Len(half[j]) < Len(half[k])

\* C16: of the two halves of a group split at word n \div 2, the one that
\* holds the first token matching the original highlight keeps that highlight
\* and the other one's highlight is its longest word, the first of them on a
\* tie.
C16_HighlightStaysWithItsHalf ==
    HybridReturned =>
        \A i \in SplitGroups :
            MatchPositions(division[i]) # { } =>
                LET words == Split(division[i].group_text)
                    m == Len(words) \div 2
                    p == Min(MatchPositions(division[i]))
                    first == new_groups[Offset(i) + 1]
                    second == new_groups[Offset(i) + 2]
                IN  /\ Split(first.group_text) = SubSeq(words, 1, m)
                    /\ Split(second.group_text) = SubSeq(words, m + 1, Len(words))
                    /\ IF p <= m
                       THEN /\ first.highlight_word = division[i].highlight_word
                            /\ IsLongestFirst(second.highlight_word, SubSeq(words, m + 1, Len(words)))
                       ELSE /\ second.highlight_word = division[i].highlight_word
                            /\ IsLongestFirst(first.highlight_word, SubSeq(words, 1, m))

(***************************************************************************)
(* Properties of the line layout                                           *)
(***************************************************************************)
\* divide_group is over: it returned a SubtitleGroup, or raised
LayoutOver == layoutPc \in {"returned", "ValidationError"}

\* C17: for every non-empty group text, highlight word, max_words_per_line
\* and font configuration divide_group yields a SubtitleGroup of one to three
\* lines, on the highlighted and on the unhighlighted path.
C17_OneToThreeLines ==
    (LayoutOver /\ layout_group.group_text # << >>) =>
        /\ layoutPc = "returned"
        /\ Len(layout_lines) >= 1
        /\ Len(layout_lines) <= 3

\* C18: for each of the 8 font configurations the highlight font is bold if
\* bold is set, else italic if italic is set, else normal, and the supporting
\* fonts are [normal], with italic appended exactly when bold and italic are
\* both set.
C18_FontRoles ==
    layoutPc \in {"divide", "returned", "ValidationError"} =>
        /\ highlight_font = (IF font_config.bold THEN "bold"
                             ELSE IF font_config.italic THEN "italic" ELSE "normal")
        /\ supporting_fonts = (IF font_config.bold /\ font_config.italic
                               THEN << "normal", "italic" >> ELSE << "normal" >>)

\* some whitespace token of the group text is the highlight word, both
\* lowercased and stripped of punctuation
TokenMatchesHighlight ==
    /\ layout_group.highlight_word # None
    /\ \E k \in 1 .. Len(Split(layout_group.group_text)) :
           normalize_word(Split(layout_group.group_text)[k])
               = normalize_word(layout_group.highlight_word[1])

\* C19: with bold set, divide_group takes the highlighted path and emits the
\* highlight as a line of its own in the highlight font whenever some token
\* matches the highlight word, and takes the unhighlighted path only when
\* none does.
C19_HighlightedWheneverTokenMatches ==
    (LayoutOver /\ font_config.bold) =>
        /\ TokenMatchesHighlight =>
               /\ layout_path = "highlighted"
               /\ \E i \in 1 .. Len(layout_lines) :
                      layout_lines[i] = StyledLine(layout_group.highlight_word[1], "bold")
        /\ layout_path = "unhighlighted" => ~TokenMatchesHighlight

\* the whitespace-separated words of the texts of lines i .. j, in order
RECURSIVE LineWords(_, _, _)
LineWords(ls, i, j) ==
    IF i > j THEN << >> ELSE Split(ls[i].text) \o LineWords(ls, i + 1, j)

\* C20: the lines divide_group produces hold exactly the tokens of the group
\* in their order; bounding the lines to 3 merges lines only on one side of
\* the highlight line and leaves the highlight line as it was.
C20_LinesHoldTheTokens ==
    LayoutOver =>
        /\ LineWords(layout_lines, 1, Len(layout_lines)) = Split(layout_group.group_text)
        /\ layout_path = "highlighted" =>
               LET h == FirstWithFont(raw_lines, "bold")
                   k == FirstWithFont(layout_lines, "bold")
               IN  /\ h > 0
                   /\ k > 0
                   /\ layout_lines[k] = raw_lines[h]
                   /\ LineWords(layout_lines, 1, k - 1) = LineWords(raw_lines, 1, h - 1)
                   /\ LineWords(layout_lines, k + 1, Len(layout_lines))
                          = LineWords(raw_lines, h + 1, Len(raw_lines))

(***************************************************************************)
(* Properties of the merger and of the matcher's searches                  *)
(***************************************************************************)
\* a group without the ids of the group, of its lines and of their words
WithoutIds(group) ==
    [group_text |-> group.group_text,
     start |-> group.start,
     end |-> group.end,
     lines |-> [l \in 1 .. Len(group.lines) |->
                   [text |-> group.lines[l].text,
                    font_type |-> group.lines[l].font_type,
                    start |-> group.lines[l].start,
                    end |-> group.lines[l].end,
                    words |-> [w \in 1 .. Len(group.lines[l].words) |->
                                  [word |-> group.lines[l].words[w].word,
                                   start |-> group.lines[l].words[w].start,
                                   end |-> group.lines[l].words[w].end]]]]]

\* the positions of the lines and of the words of a timeline
LinePositions(tl) ==
    UNION { { << g, l >> : l \in 1 .. Len(tl[g].lines) } : g \in 1 .. Len(tl) }

WordPositions(tl) ==
    UNION { { << p[1], p[2], w >> : w \in 1 .. Len(tl[p[1]].lines[p[2]].words) } :
            p \in LinePositions(tl) }

\* C21: merge returns the groups of all chunks concatenated in chunk order,
\* each chunk's groups in their order and unchanged but for the ids; the
\* g-th group has id group-g, its l-th line group-g-line-l, that line's w-th
\* word group-g-line-l-word-w (from 0), so the ids of the merged timeline
\* are unique, whatever ids the groups had per chunk.
C21_MergedByPosition ==
    dataPc = "returned" =>
        LET all_groups == Concat(processed_chunks)
        IN  /\ Len(final_data) = Len(all_groups)
            /\ \A g \in 1 .. Len(final_data) :
                   /\ WithoutIds(final_data[g]) = WithoutIds(all_groups[g])
                   /\ final_data[g].id = << g - 1 >>
            /\ \A p \in LinePositions(final_data) :
                   final_data[p[1]].lines[p[2]].id = << p[1] - 1, p[2] - 1 >>
            /\ \A p \in WordPositions(final_data) :
                   final_data[p[1]].lines[p[2]].words[p[3]].id
                       = << p[1] - 1, p[2] - 1, p[3] - 1 >>
            /\ \A g, h \in 1 .. Len(final_data) :
                   final_data[g].id = final_data[h].id => g = h
            /\ \A p, q \in LinePositions(final_data) :
                   final_data[p[1]].lines[p[2]].id = final_data[q[1]].lines[q[2]].id
                       => p = q
            /\ \A p, q \in WordPositions(final_data) :
                   final_data[p[1]].lines[p[2]].words[p[3]].id
                       = final_data[q[1]].lines[q[2]].words[q[3]].id => p = q

\* two chunks were merged, the second chunk's first group was group-0 in its
\* chunk and holds a word record, and the first chunk has a group as well
C21_Witness ==
    /\ dataPc = "returned"
    /\ Len(processed_chunks) = 2
    /\ processed_chunks[1] # << >>
    /\ processed_chunks[2] # << >>
    /\ processed_chunks[2][1].id = << 0 >>
    /\ processed_chunks[2][1].lines # << >>
    /\ processed_chunks[2][1].lines[1].words # << >>
    /\ final_data[Len(processed_chunks[1]) + 1].id # << 0 >>

(***************************************************************************)
(* Properties of the split of an oversized group                           *)
(***************************************************************************)
\* the groups of the division the no-highlight post-processor split
Oversized ==
    { i \in 1 .. Len(division) : Len(Split(division[i])) > max_words_per_group }

\* the least k with k * max_words >= n
Ceil(n, max_words) == CHOOSE k \in 0 .. n : k * max_words >= n /\ (k - 1) * max_words < n

\* the number of result groups that come from the groups before division[i]
RECURSIVE PartsBefore(_)
PartsBefore(i) ==
    IF i = 1 THEN 0
    ELSE PartsBefore(i - 1)
         + (IF i - 1 \in Oversized
            THEN Ceil(Len(Split(division[i - 1])), max_words_per_group) ELSE 1)

\* the words of groups a .. b of the result, in order
RECURSIVE PartWords(_, _)
PartWords(a, b) ==
    IF a > b THEN << >> ELSE Split(new_groups[a]) \o PartWords(a + 1, b)

\* C22: the no-highlight post-processor splits a group of n words over the
\* ceiling into exactly k = ceil(n / max_words) parts that hold its words in
\* their order; the first n % k parts have n \div k + 1 words and the others
\* n \div k, so the sizes differ by at most one, no part is empty and every
\* part has at most max_words words.
C22_EvenParts ==
    (ppPc = "returned" /\ processor = "GroupPostProcessor") =>
        \A i \in Oversized :
            LET n == Len(Split(division[i]))
                k == Ceil(n, max_words_per_group)
                first == PartsBefore(i) + 1
                last == PartsBefore(i) + k
                size(j) == Len(Split(new_groups[first + j - 1]))
            IN  /\ last <= Len(new_groups)
                /\ PartsBefore(Len(division) + 1) = Len(new_groups)
                /\ PartWords(first, last) = Split(division[i])
                /\ \A j \in 1 .. k :
                       /\ size(j) = (n \div k) + (IF j <= n % k THEN 1 ELSE 0)
                       /\ size(j) >= 1
                       /\ size(j) <= max_words_per_group
                /\ \A j, m \in 1 .. k : size(j) - size(m) <= 1

\* a group was split into parts of unequal sizes after a group that passed
\* through
C22_Witness ==
    /\ ppPc = "returned"
    /\ processor = "GroupPostProcessor"
    /\ Len(division) = 2
    /\ 1 \notin Oversized
    /\ 2 \in Oversized
    /\ Len(Split(division[2])) % Ceil(Len(Split(division[2])), max_words_per_group) # 0
    /\ Len(new_groups) = 1 + Ceil(Len(Split(division[2])), max_words_per_group)

(***************************************************************************)
(* Properties of the matcher's searches                                    *)
(***************************************************************************)
Returned == dataPc = "returned"

\* the groups searched, as << chunk, group >>, and the lines searched, as
\* << chunk, group, line >>
GroupSearches ==
    UNION { { << c, g >> : g \in 1 .. Len(searches[c]) } : c \in 1 .. Len(searches) }

LineSearches ==
    UNION { { << p[1], p[2], l >> : l \in 1 .. Len(searches[p[1]][p[2]].lines) } :
            p \in GroupSearches }

\* the normalized tokens of the phrase equal the normalized source words
\* i .. i + len - 1 (from 0)
MatchesAt(wts, phrase, i) ==
    LET pw == PhraseWords(phrase)
        tw == TranscriptWords(wts)
    IN  /\ pw # << >>
        /\ i >= 0
        /\ i + Len(pw) <= Len(tw)
        /\ \A j \in 1 .. Len(pw) : tw[i + j] = pw[j]

MatchesFrom(wts, phrase, lo) == \E i \in lo .. Len(wts) : MatchesAt(wts, phrase, i)

\* found is the match of the phrase at the first index from lo on
IsFirstMatchFrom(wts, phrase, lo, found) ==
    /\ found.start_idx >= lo
    /\ MatchesAt(wts, phrase, found.start_idx)
    /\ \A k \in lo .. (found.start_idx - 1) : ~MatchesAt(wts, phrase, k)
    /\ found.end_idx = found.start_idx + Len(PhraseWords(phrase)) - 1
    /\ found.start = wts[found.start_idx + 1].start
    /\ found.end = wts[found.end_idx + 1].end

\* what a search of the phrase from index s.from is to return
SearchedAsSpecified(wts, phrase, s) ==
    IF MatchesFrom(wts, phrase, s.from)
    THEN IsFirstMatchFrom(wts, phrase, s.from, s.found)
    ELSE IF MatchesFrom(wts, phrase, 0)
    THEN IsFirstMatchFrom(wts, phrase, 0, s.found)
    ELSE s.found = [start |-> 0, end |-> 0, start_idx |-> s.from, end_idx |-> s.from]

\* C23: find_phrase_timestamp_sequential(phrase, from_index) returns the
\* first index i >= from_index at which the normalized tokens of the phrase
\* equal the normalized source words i .. i + len - 1, with the start of
\* that first word and the end of the last one; if there is none, the first
\* match from index 0; if the phrase matches nowhere or has no tokens, zero
\* timestamps and both indices equal to from_index.
C23_FirstMatchFromCursor ==
    Returned =>
        /\ \A p \in GroupSearches :
               SearchedAsSpecified(chunks[p[1]].words,
                                   chunk_results[p[1]][p[2]].group_text,
                                   searches[p[1]][p[2]])
        /\ \A p \in LineSearches :
               SearchedAsSpecified(chunks[p[1]].words,
                                   chunk_results[p[1]][p[2]].lines[p[3]].text,
                                   searches[p[1]][p[2]].lines[p[3]])

\* a group searched from a cursor past 0 was found at or after the cursor
\* although its phrase matches before the cursor too, and a line of it that
\* matches nowhere got the placeholder at its cursor
C23_Witness ==
    /\ Returned
    /\ \E p \in LineSearches :
           LET c == p[1]
               g == p[2]
               gs == searches[c][g]
               ls == gs.lines[p[3]]
           IN  /\ gs.from >= 1
               /\ gs.found.start_idx >= gs.from
               /\ MatchesFrom(chunks[c].words, chunk_results[c][g].group_text, gs.from)
               /\ MatchesAt(chunks[c].words, chunk_results[c][g].group_text, 0)
               /\ ~MatchesFrom(chunks[c].words, chunk_results[c][g].lines[p[3]].text, 0)
               /\ ls.from >= 1
               /\ ls.found.start_idx = ls.from

\* the search of group p found its phrase among the source words
GroupMatched(p) ==
    MatchesFrom(chunks[p[1]].words, chunk_results[p[1]][p[2]].group_text, 0)

\* C24: during process_groups the group cursor never moves backward: every
\* group is searched from the cursor the group before it left (the first
\* from 0), at or after end index + 1 of every matched group before it; a
\* matched group sets the cursor to its end index + 1 and an unmatched group
\* leaves it unchanged.
C24_CursorNeverMovesBackward ==
    Returned =>
        \A p \in GroupSearches :
            LET c == p[1]
                g == p[2]
                s == searches[c][g]
            IN  /\ s.from = IF g = 1 THEN 0 ELSE searches[c][g - 1].cursor
                /\ s.cursor >= s.from
                /\ \A h \in 1 .. (g - 1) :
                       GroupMatched(<< c, h >>) =>
                           s.from >= searches[c][h].found.end_idx + 1
                /\ s.cursor = IF GroupMatched(p) THEN s.found.end_idx + 1 ELSE s.from

\* C25: for every matched group and every one of its lines, whether the
\* line matched inside the group, outside it or not at all, the line's
\* timing is well-formed and lies inside the group's:
\* group.start <= line.start <= line.end <= group.end.
C25_LinesInsideTheirGroup ==
    Returned =>
        \A p \in LineSearches :
            LET group == processed_chunks[p[1]][p[2]]
                line == group.lines[p[3]]
            IN  GroupMatched(<< p[1], p[2] >>) =>
                    /\ group.start <= line.start
                    /\ line.start <= line.end
                    /\ line.end <= group.end

\* the search of line p found its text among the source words
LineMatched(p) ==
    MatchesFrom(chunks[p[1]].words, chunk_results[p[1]][p[2]].lines[p[3]].text, 0)

\* the source index a word record of process_groups names in its id
SourceIndex(record) == record.id[2]

\* C26: every word record of a processed line carries the start and end of
\* a source word whose normalized text is the record's normalized word, the
\* records of one line come from consecutive source indices, and a line
\* whose text was not matched gets no word records.
C26_WordRecordsAreSourceWords ==
    Returned =>
        \A p \in LineSearches :
            LET wts == chunks[p[1]].words
                records == processed_chunks[p[1]][p[2]].lines[p[3]].words
            IN  /\ \A w \in 1 .. Len(records) :
                       LET i == SourceIndex(records[w])
                       IN  /\ i \in 0 .. (Len(wts) - 1)
                           /\ records[w].start = wts[i + 1].start
                           /\ records[w].end = wts[i + 1].end
                           /\ normalize_word(records[w].word) = normalize_word(wts[i + 1].word)
                           /\ w > 1 => i = SourceIndex(records[w - 1]) + 1
                /\ ~LineMatched(p) => records = << >>

\* C27: within one matched group the source index ranges matched by
\* successive lines are disjoint and strictly increasing: after a line
\* matches indices a .. b the next line is searched from b + 1, also when
\* the line is a single word matched exactly at the line cursor, so no
\* source word is given to two lines of the group.
C27_LinesTakeDisjointRanges ==
    Returned =>
        \A p \in LineSearches :
            LET ls == searches[p[1]][p[2]].lines
                l == p[3]
            IN  (GroupMatched(<< p[1], p[2] >>) /\ LineMatched(p)) =>
                    /\ ls[l].cursor = ls[l].found.end_idx + 1
                    /\ \A m \in (l + 1) .. Len(ls) :
                           LineMatched(<< p[1], p[2], m >>) =>
                               ls[l].found.end_idx < ls[m].found.start_idx

(***************************************************************************)
(* Properties of the strategies' steps and of the end of a run             *)
(***************************************************************************)
\* a step-2 (formatting) request has been issued
Step2Requested ==
    /\ strategy = "two_step"
    /\ step2Issued
    /\ \E c \in Live : requests[c] >= 1

\* every chunk's step-1 request returned its division and the divisions
\* went through the word-limit post-processing, in chunk order
Step1Complete ==
    /\ Len(divisions) = nchunks
    /\ \A i \in 1 .. nchunks :
           divisions[i] = [for |-> i - 1, step |-> "step1", from |-> -1]

\* a step-1 call of the two-step strategy has failed
Step1Failed ==
    /\ strategy = "two_step"
    /\ orchPc = "step1"
    /\ \E c \in Live : taskPc[c] \in {"failed", "timedout"}

\* C28: in the two-step strategy no step-2 request is issued until the
\* step-1 request of every chunk has completed successfully and the
\* word-limit post-processing has run on all divisions; if any step-1 call
\* fails, no step-2 request is ever issued.
C28_Step2OnlyAfterAllOfStep1 ==
    /\ [](Step2Requested => Step1Complete)
    /\ [](Step1Failed => [](~Step2Requested))

\* the step-2 requests of two chunks are out, and chunk tasks have finished
\* out of chunk order
C28_Witness ==
    /\ Step2Requested
    /\ nchunks = 2
    /\ \A c \in Live : requests[c] >= 1
    /\ outOfOrder

\* C29: when SubtitlePipeline.run is over (it returned or raised) no chunk
\* task is left waiting for a permit, holding one or awaiting the service;
\* in particular the tasks still running when a chunk of the single-step
\* strategy fails are abandoned before the client is closed.
C29_NoTaskOutlivesTheRun ==
    (entry = "pipeline" /\ (runPc = "done" \/ clientClosed)) =>
        \A c \in Live : taskPc[c] \in Terminal

\* the strategy awaits its chunk tasks
StrategyRuns == orchPc \in {"step1", "step2", "wait"}

\* the strategy returned its results or raised
StrategyEnded == orchPc \in {"returned", "raised"}

SomeTaskRuns == \E c \in Live : taskPc[c] \notin Terminal

\* C30: when every service request eventually returns, fails or times out
\* and permits are granted fairly, every chunk task eventually finishes, and
\* none finishes without having acquired a permit and made a request; every
\* permit taken is released (on success, on exhausted retries and on
\* timeout): the free permits are always max_concurrent less the tasks
\* inside `async with`, and all are back when the tasks are over; and every
\* strategy's run eventually ends, returning results or raising.
C30_EveryTaskAndRunEnds ==
    /\ SomeTaskRuns ~> (AllTerminal /\ semaphore = max_concurrent)
    /\ [](\A c \in Live : taskPc[c] \in Terminal => requests[c] >= 1)
    /\ [](semaphore = max_concurrent - Cardinality(Holders))
    /\ StrategyRuns ~> StrategyEnded

\* two chunk tasks have finished, one on a timeout and one on its last
\* retry, the permits are back and the strategy has raised
C30_Witness ==
    /\ nchunks = 2
    /\ StrategyEnded
    /\ \E c, d \in Live :
           /\ taskPc[c] = "timedout"
           /\ taskPc[d] = "failed"
           /\ requests[d] = max_retries
           /\ max_retries >= 2
    /\ semaphore = max_concurrent

====
